---- MODULE Spec2Model ----
(***************************************************************************)
(* Model of the npi-rates core: the worker pool (Pool.Run), the streaming  *)
(* per-URL pipeline (runPipelineStreaming) and the streaming parser        *)
(* (StreamParse with its element workers).                                 *)
(***************************************************************************)
EXTENDS Integers, Sequences, FiniteSets, Bags, TLC

(***************************************************************************)
(* Bounds of the model.                                                    *)
(***************************************************************************)
MaxURLs == 3
MaxWorkers == 2
MaxP == 2
MaxElems == 2

(***************************************************************************)
(* Small stand-ins for the data of an MRF document.                        *)
(* NPIs are naturals whose decimal forms overlap (12 is a substring of     *)
(* 112), TINs are naturals, prices are naturals.                           *)
(***************************************************************************)
(* A provider_group_id token as written in the file: integer part and one  *)
(* fractional digit.                                                       *)
FracScale == 10

Id(ip, fr) == [ip |-> ip, fr |-> fr]

Group(npis, tin) == [npi |-> npis, tin |-> tin]

Ref(id, groups) == [provider_group_id |-> id, provider_groups |-> groups]

Rate(refs, groups, prices) ==
    [provider_references |-> refs, provider_groups |-> groups,
     negotiated_prices |-> prices]

Item(code, name, desc, rates) ==
    [billing_code |-> code, name |-> name, description |-> desc,
     negotiated_rates |-> rates]

RefPalette ==
    << Ref(Id(1, 0), << Group(<<12>>, 7) >>),
       Ref(Id(42, 1), << Group(<<12, 21>>, 8) >>),
       Ref(Id(42, 9), << Group(<<21>>, 9) >>),
       Ref(Id(2, 0), << Group(<<112>>, 6) >>) >>

InPalette ==
    << Item("c1", "n1", "d1", << Rate(<<Id(1, 0)>>, <<>>, <<100>>) >>),
       Item("c2", "", "d2",
            << Rate(<<Id(42, 1), Id(42, 9)>>, <<>>, <<100, 200>>) >>),
       Item("c3", "n3", "", << Rate(<<>>, << Group(<<21, 12>>, 7) >>, <<50>>) >>),
       Item("c4", "n4", "d4", << Rate(<<Id(42, 9)>>, <<>>, <<200>>),
                                 Rate(<<Id(2, 0)>>, <<>>, <<300>>) >>) >>

TargetChoices == { {12}, {21}, {12, 21} }

URLNames == {"u1", "u2"}

(***************************************************************************)
(* Sequences helpers.                                                      *)
(***************************************************************************)
RECURSIVE SubSeqs(_)
SubSeqs(s) ==
    IF s = <<>> THEN { <<>> }
    ELSE LET r == SubSeqs(Tail(s))
         IN  r \cup { <<Head(s)>> \o t : t \in r }

BoundedSubSeqs(s, n) == { t \in SubSeqs(s) : Len(t) <= n }

RECURSIVE BagOfSeq(_)
BagOfSeq(s) ==
    IF s = <<>> THEN EmptyBag
    ELSE BagOfSeq(Tail(s)) (+) SetToBag({Head(s)})

RECURSIVE SeqSum(_)
SeqSum(s) == IF s = <<>> THEN 0 ELSE Head(s) + SeqSum(Tail(s))

Range(s) == { s[i] : i \in 1..Len(s) }

(***************************************************************************)
(* Byte prefilter: npiBytePatterns and lineContainsAny.                    *)
(* Bytes are 0..9 for the digits, Dot for '.', Sep for any other byte.     *)
(***************************************************************************)
Dot == 10
Sep == 11

RECURSIVE Digits(_)
Digits(n) == IF n < 10 THEN <<n>> ELSE Append(Digits(n \div 10), n % 10)

Contains(line, p) ==
    \E i \in 0..(Len(line) - Len(p)) :
        \A j \in 1..Len(p) : line[i + j] = p[j]

(* Variant for C35: patterns that are not the decimal form of the NPI. *)
npiBytePatterns_Padded(targetNPIs) ==
    { <<0>> \o Digits(npi) : npi \in targetNPIs }

npiBytePatterns(targetNPIs) == { Digits(npi) : npi \in targetNPIs }

lineContainsAny(line, patterns) == \E p \in patterns : Contains(line, p)

IdBytes(id) ==
    IF id.fr = 0 THEN Digits(id.ip)
    ELSE Digits(id.ip) \o <<Dot>> \o Digits(id.fr)

RECURSIVE NumsBytes(_)
NumsBytes(ns) ==
    IF ns = <<>> THEN <<>>
    ELSE Digits(Head(ns)) \o <<Sep>> \o NumsBytes(Tail(ns))

RECURSIVE GroupsBytes(_)
GroupsBytes(gs) ==
    IF gs = <<>> THEN <<>>
    ELSE NumsBytes(Head(gs).npi) \o Digits(Head(gs).tin) \o <<Sep>>
         \o GroupsBytes(Tail(gs))

(* The raw JSON bytes of one provider_references element. *)
RefBytes(ref) ==
    IdBytes(ref.provider_group_id) \o <<Sep>> \o GroupsBytes(ref.provider_groups)

(***************************************************************************)
(* Provider index: MatchedProviders.ByGroupID, a map from the float64      *)
(* value of provider_group_id to the list of matched ProviderInfo.         *)
(***************************************************************************)
ProviderInfo(npi, tin) == [NPI |-> npi, TIN |-> tin]

EmptyIndex == << >>

(* Variant for C5: the id is cut to its integer part. *)
ParseFloat_Truncated(id) == id.ip * FracScale

(* The float64 a provider_group_id token decodes to (scaled by FracScale). *)
ParseFloat(id) == id.ip * FracScale + id.fr

MapAppend(m, k, v) ==
    IF k \in DOMAIN m THEN [m EXCEPT ![k] = Append(@, v)]
    ELSE [x \in (DOMAIN m) \cup {k} |-> IF x = k THEN <<v>> ELSE m[x]]

(* Variant for C2: every NPI of a group is indexed, target or not. *)
RECURSIVE AppendTargets_All(_, _, _, _, _)
AppendTargets_All(m, k, npis, tin, targets) ==
    IF npis = <<>> THEN m
    ELSE AppendTargets_All(MapAppend(m, k, ProviderInfo(Head(npis), tin)),
                           k, Tail(npis), tin, targets)

RECURSIVE AppendTargets(_, _, _, _, _)
AppendTargets(m, k, npis, tin, targetNPIs) ==
    IF npis = <<>> THEN m
    ELSE AppendTargets(
            IF Head(npis) \in targetNPIs
            THEN MapAppend(m, k, ProviderInfo(Head(npis), tin)) ELSE m,
            k, Tail(npis), tin, targetNPIs)

(* A "tin" that is a JSON number where the TIN object is expected, and the *)
(* zero value TIN{} of a group whose tin could not be read.                *)
BadTIN == 5
ZeroTIN == 0

BadGroup(g) == g.tin = BadTIN

(* json.Unmarshal(raw, &ref) returns an error: a field has the wrong type. *)
RefUnmarshalFails(ref) == \E g \in Range(ref.provider_groups) : BadGroup(g)

(* json.Unmarshal(raw, &item) returns an error. *)
ItemUnmarshalFails(item) ==
    \E nr \in Range(item.negotiated_rates) :
        \E g \in Range(nr.provider_groups) : BadGroup(g)

(* FindElement(nil, "tin", "type") and (nil, "tin", "value") of             *)
(* extractProviderRef: when they fail the fields of tin stay empty.        *)
SimdTIN(g) == IF BadGroup(g) THEN ZeroTIN ELSE g.tin

(* The stdlib branch of streamProviderReferences: json.Unmarshal, then     *)
(* every target NPI of every group is appended under the element's id.     *)
RECURSIVE UnmarshalGroups(_, _, _, _)
UnmarshalGroups(m, k, gs, targetNPIs) ==
    IF gs = <<>> THEN m
    ELSE UnmarshalGroups(
            AppendTargets(m, k, Head(gs).npi, Head(gs).tin, targetNPIs),
            k, Tail(gs), targetNPIs)

(* extractProviderRef: a group is skipped unless one of its NPIs matches.  *)
RECURSIVE extractGroups(_, _, _, _)
extractGroups(m, k, gs, targetNPIs) ==
    IF gs = <<>> THEN m
    ELSE extractGroups(
            IF \E i \in 1..Len(Head(gs).npi) : Head(gs).npi[i] \in targetNPIs
            THEN AppendTargets(m, k, Head(gs).npi, SimdTIN(Head(gs)),
                               targetNPIs)
            ELSE m,
            k, Tail(gs), targetNPIs)

extractProviderRef(m, ref, targetNPIs) ==
    extractGroups(m, ParseFloat(ref.provider_group_id), ref.provider_groups,
                  targetNPIs)

(* One iteration of the element loop of streamProviderReferences, after    *)
(* the element was decoded: prefilter, then parse and index.  The stdlib   *)
(* branch leaves out an element that json.Unmarshal rejects.               *)
IndexRefElement(m, ref, targetNPIs, simd) ==
    IF ~lineContainsAny(RefBytes(ref), npiBytePatterns(targetNPIs)) THEN m
    ELSE IF simd THEN extractProviderRef(m, ref, targetNPIs)
    ELSE IF RefUnmarshalFails(ref) THEN m
    ELSE UnmarshalGroups(m, ParseFloat(ref.provider_group_id),
                         ref.provider_groups, targetNPIs)

(***************************************************************************)
(* In-network element processing.                                          *)
(***************************************************************************)
RateResult(src, prov, item, price) ==
    [source_file |-> src, npi |-> prov.NPI, tin |-> prov.TIN,
     billing_code |-> item.billing_code,
     billing_code_description |->
        IF item.name = "" THEN item.description ELSE item.name,
     negotiated_rate |-> price]

RECURSIVE RefProviders(_, _)
RefProviders(refIDs, m) ==
    IF refIDs = <<>> THEN <<>>
    ELSE (IF ParseFloat(Head(refIDs)) \in DOMAIN m
          THEN m[ParseFloat(Head(refIDs))] ELSE <<>>)
         \o RefProviders(Tail(refIDs), m)

RECURSIVE InlineNPIs(_, _, _)
InlineNPIs(npis, tin, targetNPIs) ==
    IF npis = <<>> THEN <<>>
    ELSE (IF Head(npis) \in targetNPIs
          THEN <<ProviderInfo(Head(npis), tin)>> ELSE <<>>)
         \o InlineNPIs(Tail(npis), tin, targetNPIs)

RECURSIVE InlineProviders(_, _)
InlineProviders(gs, targetNPIs) ==
    IF gs = <<>> THEN <<>>
    ELSE InlineNPIs(Head(gs).npi, Head(gs).tin, targetNPIs)
         \o InlineProviders(Tail(gs), targetNPIs)

(* Variant for C8: only the first price of a rate is emitted. *)
PriceResults_First(src, prov, item, prices) ==
    IF prices = <<>> THEN <<>>
    ELSE <<RateResult(src, prov, item, Head(prices))>>

RECURSIVE PriceResults(_, _, _, _)
PriceResults(src, prov, item, prices) ==
    IF prices = <<>> THEN <<>>
    ELSE <<RateResult(src, prov, item, Head(prices))>>
         \o PriceResults(src, prov, item, Tail(prices))

RECURSIVE ProviderResults(_, _, _, _)
ProviderResults(src, provs, item, prices) ==
    IF provs = <<>> THEN <<>>
    ELSE PriceResults(src, Head(provs), item, prices)
         \o ProviderResults(src, Tail(provs), item, prices)

RateProviders(nr, targetNPIs, m) ==
    RefProviders(nr.provider_references, m)
    \o InlineProviders(nr.provider_groups, targetNPIs)

RECURSIVE RatesResults(_, _, _, _, _)
RatesResults(item, rates, targetNPIs, m, src) ==
    IF rates = <<>> THEN <<>>
    ELSE ProviderResults(src, RateProviders(Head(rates), targetNPIs, m), item,
                         Head(rates).negotiated_prices)
         \o RatesResults(item, Tail(rates), targetNPIs, m, src)

(* The sequence of emit calls emitInNetworkResults makes for one item. *)
emitInNetworkResults(item, targetNPIs, m, src) ==
    RatesResults(item, item.negotiated_rates, targetNPIs, m, src)

checkNPIMatchSimd(item, targetNPIs, m) ==
    \E r \in 1..Len(item.negotiated_rates) :
        LET nr == item.negotiated_rates[r] IN
        \/ /\ DOMAIN m # {}
           /\ \E i \in 1..Len(nr.provider_references) :
                 ParseFloat(nr.provider_references[i]) \in DOMAIN m
        \/ \E g \in 1..Len(nr.provider_groups) :
              \E i \in 1..Len(nr.provider_groups[g].npi) :
                 nr.provider_groups[g].npi[i] \in targetNPIs

(* The emit calls processInNetworkElement makes for one raw element. *)
processInNetworkElement(item, targetNPIs, m, src, simd) ==
    IF simd /\ ~checkNPIMatchSimd(item, targetNPIs, m) THEN <<>>
    ELSE IF ItemUnmarshalFails(item) THEN <<>>
    ELSE emitInNetworkResults(item, targetNPIs, m, src)

(***************************************************************************)
(* State.                                                                  *)
(***************************************************************************)
VARIABLES
    (* Pool.Run *)
    urls,          \* the input URL list
    Workers,       \* Pool.Workers, the capacity of sem
    ctxDone,       \* the root context has been cancelled
    mainpc,        \* position of Pool.Run itself
    nspawned,      \* number of goroutines started by the for loop
    tpc,           \* position of each pool goroutine
    sem,           \* number of tokens held in the sem channel
    results,       \* the pre-sized results slice
    tresult,       \* the *PipelineResult RunPipeline returned to a goroutine
    trackers,      \* per goroutine: <<NewTracker calls, Done calls>>
    returned,      \* the slice handed back to the caller of Pool.Run
    writes,        \* per slot of results, the goroutines that assigned it
    (* runPipelineStreaming and StreamParse *)
    doc,           \* the top-level members the decoder will deliver
    targetNPIs,
    useSimd,
    numWorkers,    \* runtime.GOMAXPROCS(0)
    harness,       \* which caller drives StreamParse
    pass,          \* number of the current StreamParse call
    prebuilt,      \* the prebuilt argument of the current call is non-nil
    ppc,           \* position of StreamParse
    mi,            \* index of the next top-level member
    ei,            \* index of the next element of the current array
    matched,       \* MatchedProviders.ByGroupID of the current call
    seenProviderRefs,
    skippedInNetwork,
    refsCount,
    ch,            \* the element channel of streamInNetwork
    chClosed,
    raw,           \* the element decoded but not yet sent on ch
    wpc,           \* position of each element worker
    wq,            \* emit calls an element worker still has to make
    Results,       \* result.Results of the per-URL pipeline
    warnings,      \* number of OnWarning calls of the current call
    refsScanned,
    codesScanned,
    sr,            \* the StreamResult of the last completed call
    hist,          \* what the harness recorded of earlier calls
    contentLength, \* resp.ContentLength of the downloads of the URL
    countN,        \* countReader.n at the end of each pass
    resultErr,     \* result.Err of the per-URL pipeline
    (* RunPipeline with retries and DownloadHTTP *)
    hpc,           \* position inside RunPipeline / DownloadHTTP
    pattempt,      \* attempt of RunPipeline's loop
    attempt,       \* attempt of DownloadHTTP's loop
    fetches,       \* per DownloadHTTP call: responses, waits, outcome
    hctxDone,      \* the context of this pipeline has been cancelled
    sleeps,        \* the delays RunPipeline waited between attempts
    hresult,       \* what RunPipeline returned
    (* StreamParse over a raw token stream *)
    input,         \* the tokens the stream holds, all of them
    lpc,           \* position of StreamParse at the top level
    lrest,         \* the tokens the decoder has not delivered yet
    lres,          \* what StreamParse returned: error and result
    (* emitFunc called by concurrent goroutines *)
    em,            \* per goroutine: position, calls left, slice it read
    mu,            \* the goroutine that holds the mutex, or 0
    buffer,        \* result.Results
    ecalls,        \* number of calls of emitFunc so far
    (* runPipelineWithFIFO *)
    fpc,           \* position of runPipelineWithFIFO
    dpc,           \* position of the download goroutine
    spc,           \* position of the split goroutine
    fctx,          \* ctx.Done() is closed
    fifoR,         \* who holds, or is opening, the read end of the FIFO
    fifoW,         \* who holds, or is opening, the write end of the FIFO
    fifoWait,      \* who is blocked in open, waiting for the other end
    dlErrCh,       \* channel of capacity 1
    splitCh,       \* channel of capacity 1
    fErr           \* result.Err

poolVars ==
    <<urls, Workers, ctxDone, mainpc, nspawned, tpc, sem, results, tresult,
      trackers, returned, writes>>

parseVars ==
    <<doc, targetNPIs, useSimd, numWorkers, harness, pass, prebuilt, ppc, mi,
      ei, matched, seenProviderRefs, skippedInNetwork, refsCount, ch,
      chClosed, raw, wpc, wq, Results, warnings, refsScanned, codesScanned, sr,
      hist>>

fetchVars == <<contentLength, countN, resultErr>>

httpVars == <<hpc, pattempt, attempt, fetches, hctxDone, sleeps, hresult>>

lexVars == <<input, lpc, lrest, lres>>

emitVars == <<em, mu, buffer, ecalls>>

fifoVars ==
    <<fpc, dpc, spc, fctx, fifoR, fifoW, fifoWait, dlErrCh, splitCh, fErr>>

vars ==
    <<poolVars, parseVars, fetchVars, httpVars, lexVars, emitVars, fifoVars>>

(***************************************************************************)
(* Worker pool: Pool.Run.                                                  *)
(***************************************************************************)
ErrNone == "nil"
ErrCanceled == "context canceled"
ErrFailed == "failed"

(* The zero PipelineResult make([]PipelineResult, n) fills the slice with. *)
ZeroResult == [URL |-> "", Err |-> ErrNone, Results |-> 0]

PipelineResult(u, e, n) == [URL |-> u, Err |-> e, Results |-> n]

(* A goroutine's result variable before RunPipeline has returned. *)
NoResult == [URL |-> "", Err |-> "unset", Results |-> 0]

(* URL lists up to renaming of the URLs: the first URL is always "u1". *)
URLLists ==
    { l \in UNION { [1..n -> URLNames] : n \in 0..MaxURLs } :
        Len(l) > 0 => l[1] = "u1" }

Threads == 1..Len(urls)

PoolIdle ==
    /\ urls = <<>>
    /\ Workers = 0
    /\ ctxDone = FALSE
    /\ mainpc = "idle"
    /\ nspawned = 0
    /\ tpc = <<>>
    /\ sem = 0
    /\ results = <<>>
    /\ tresult = <<>>
    /\ trackers = <<>>
    /\ returned = <<>>
    /\ writes = <<>>

ParseIdle ==
    /\ doc = <<>>
    /\ targetNPIs = {}
    /\ useSimd = FALSE
    /\ numWorkers = 1
    /\ harness = "idle"
    /\ pass = 0
    /\ prebuilt = FALSE
    /\ ppc = "idle"
    /\ mi = 0
    /\ ei = 0
    /\ matched = EmptyIndex
    /\ seenProviderRefs = FALSE
    /\ skippedInNetwork = FALSE
    /\ refsCount = 0
    /\ ch = <<>>
    /\ chClosed = FALSE
    /\ raw = <<>>
    /\ wpc = <<>>
    /\ wq = <<>>
    /\ Results = <<>>
    /\ warnings = 0
    /\ refsScanned = 0
    /\ codesScanned = 0
    /\ sr = <<>>
    /\ hist = <<>>

(* An error chain as fmt.Errorf("...: %w", err) builds it, outermost first; *)
(* the empty chain is nil.                                                 *)
NoErr == <<>>

(* A download whose length is not declared, and no pipeline error yet. *)
FetchUndeclared == [cl |-> -1, n |-> <<0, 0>>]

FetchIdle ==
    /\ contentLength = FetchUndeclared.cl
    /\ countN = FetchUndeclared.n
    /\ resultErr = NoErr

FifoIdle ==
    /\ fpc = "idle"
    /\ dpc = "idle"
    /\ spc = "idle"
    /\ fctx = FALSE
    /\ fifoR = {}
    /\ fifoW = {}
    /\ fifoWait = {}
    /\ dlErrCh = <<>>
    /\ splitCh = <<>>
    /\ fErr = NoErr

EmitIdle ==
    /\ em = <<>>
    /\ mu = 0
    /\ buffer = <<>>
    /\ ecalls = 0

LexIdle ==
    /\ input = <<>>
    /\ lpc = "idle"
    /\ lrest = <<>>
    /\ lres = [err |-> NoErr, result |-> FALSE]

HttpIdle ==
    /\ hpc = "idle"
    /\ pattempt = 0
    /\ attempt = 0
    /\ fetches = <<>>
    /\ hctxDone = FALSE
    /\ sleeps = <<>>
    /\ hresult = [returned |-> FALSE, Err |-> NoErr]

InitPool ==
    /\ urls \in URLLists
    /\ Workers \in 0..MaxWorkers
    /\ ctxDone \in BOOLEAN
    /\ mainpc = "loop"
    /\ nspawned = 0
    /\ tpc = [t \in Threads |-> "unborn"]
    /\ sem = 0
    /\ results = [t \in Threads |-> ZeroResult]
    /\ tresult = [t \in Threads |-> NoResult]
    /\ trackers = [t \in Threads |-> <<0, 0>>]
    /\ returned = <<>>
    /\ writes = [t \in Threads |-> <<>>]
    /\ ParseIdle
    /\ FetchIdle
    /\ HttpIdle
    /\ LexIdle
    /\ EmitIdle
    /\ FifoIdle

(* for i, url := range urls { wg.Add(1); go func(idx, u) {...}(i, url) } *)
Spawn ==
    /\ mainpc = "loop"
    /\ nspawned < Len(urls)
    /\ nspawned' = nspawned + 1
    /\ tpc' = [tpc EXCEPT ![nspawned + 1] = "select"]
    /\ UNCHANGED <<urls, Workers, ctxDone, mainpc, sem, results, tresult,
                   trackers, returned, writes, parseVars, fetchVars,
                   httpVars, lexVars, emitVars, fifoVars>>

(* Variant for C13: the send on sem never blocks. *)
Acquire_NoLimit(t) ==
    /\ tpc[t] = "select"
    /\ sem' = sem + 1
    /\ tpc' = [tpc EXCEPT ![t] = "acquired"]
    /\ UNCHANGED <<urls, Workers, ctxDone, mainpc, nspawned, results, tresult,
                   trackers, returned, writes, parseVars, fetchVars,
                   httpVars, lexVars, emitVars, fifoVars>>

(* select { case sem <- struct{}{}: ... } *)
Acquire(t) ==
    /\ tpc[t] = "select"
    /\ sem < Workers
    /\ sem' = sem + 1
    /\ tpc' = [tpc EXCEPT ![t] = "acquired"]
    /\ UNCHANGED <<urls, Workers, ctxDone, mainpc, nspawned, results, tresult,
                   trackers, returned, writes, parseVars, fetchVars,
                   httpVars, lexVars, emitVars, fifoVars>>

(* Variant for C1: the cancellation record without its URL. *)
CanceledResult_NoURL(u) == PipelineResult("", ErrCanceled, 0)

(* The record the ctx.Done() branch of the select stores. *)
CanceledResult(u) == PipelineResult(u, ErrCanceled, 0)

(* select { case <-ctx.Done(): results[idx] = ...; return } *)
CancelBail(t) ==
    /\ tpc[t] = "select"
    /\ ctxDone
    /\ results' = [results EXCEPT ![t] = CanceledResult(urls[t])]
    /\ writes' = [writes EXCEPT ![t] = Append(@, t)]
    /\ tpc' = [tpc EXCEPT ![t] = "exit"]
    /\ UNCHANGED <<urls, Workers, ctxDone, mainpc, nspawned, sem, tresult,
                   trackers, returned, parseVars, fetchVars, httpVars,
                   lexVars, emitVars, fifoVars>>

(* tracker := p.Progress.NewTracker(idx, len(urls), FileNameFromURL(u)) *)
NewTracker(t) ==
    /\ tpc[t] = "acquired"
    /\ trackers' = [trackers EXCEPT ![t] = <<@[1] + 1, @[2]>>]
    /\ tpc' = [tpc EXCEPT ![t] = "call"]
    /\ UNCHANGED <<urls, Workers, ctxDone, mainpc, nspawned, sem, results,
                   tresult, returned, writes, parseVars, fetchVars, httpVars,
                   lexVars, emitVars, fifoVars>>

(* RunPipeline is entered. *)
PipelineStart(t) ==
    /\ tpc[t] = "call"
    /\ tpc' = [tpc EXCEPT ![t] = "running"]
    /\ UNCHANGED <<urls, Workers, ctxDone, mainpc, nspawned, sem, results,
                   tresult, trackers, returned, writes, parseVars, fetchVars,
                   httpVars, lexVars, emitVars, fifoVars>>

(* The results RunPipeline can return for url u: every return statement    *)
(* builds the PipelineResult with URL: url.                                *)
RunPipeline(u, cancelled) ==
    { PipelineResult(u, ErrNone, n) : n \in 0..1 }
    \cup { PipelineResult(u, ErrFailed, n) : n \in 0..1 }
    \cup (IF cancelled THEN { PipelineResult(u, ErrCanceled, 0) } ELSE {})

PipelineReturn(t) ==
    /\ tpc[t] = "running"
    /\ \E r \in RunPipeline(urls[t], ctxDone) :
          tresult' = [tresult EXCEPT ![t] = r]
    /\ tpc' = [tpc EXCEPT ![t] = "store"]
    /\ UNCHANGED <<urls, Workers, ctxDone, mainpc, nspawned, sem, results,
                   trackers, returned, writes, parseVars, fetchVars,
                   httpVars, lexVars, emitVars, fifoVars>>

(* results[idx] = *result *)
Store(t) ==
    /\ tpc[t] = "store"
    /\ results' = [results EXCEPT ![t] = tresult[t]]
    /\ writes' = [writes EXCEPT ![t] = Append(@, t)]
    /\ tpc' = [tpc EXCEPT ![t] = "done"]
    /\ UNCHANGED <<urls, Workers, ctxDone, mainpc, nspawned, sem, tresult,
                   trackers, returned, parseVars, fetchVars, httpVars,
                   lexVars, emitVars, fifoVars>>

(* Variant for C26: the goroutine leaves without calling tracker.Done(). *)
TrackerDone_Skipped(t) ==
    /\ tpc[t] = "done"
    /\ tpc' = [tpc EXCEPT ![t] = "release"]
    /\ UNCHANGED <<urls, Workers, ctxDone, mainpc, nspawned, sem, results,
                   tresult, trackers, returned, writes, parseVars, fetchVars,
                   httpVars, lexVars, emitVars, fifoVars>>

(* tracker.Done() *)
TrackerDone(t) ==
    /\ tpc[t] = "done"
    /\ trackers' = [trackers EXCEPT ![t] = <<@[1], @[2] + 1>>]
    /\ tpc' = [tpc EXCEPT ![t] = "release"]
    /\ UNCHANGED <<urls, Workers, ctxDone, mainpc, nspawned, sem, results,
                   tresult, returned, writes, parseVars, fetchVars, httpVars,
                   lexVars, emitVars, fifoVars>>

(* defer func() { <-sem }(), then defer wg.Done() *)
Release(t) ==
    /\ tpc[t] = "release"
    /\ sem' = sem - 1
    /\ tpc' = [tpc EXCEPT ![t] = "exit"]
    /\ UNCHANGED <<urls, Workers, ctxDone, mainpc, nspawned, results, tresult,
                   trackers, returned, writes, parseVars, fetchVars,
                   httpVars, lexVars, emitVars, fifoVars>>

(* The caller's context is cancelled. *)
Cancel ==
    /\ mainpc = "loop"
    /\ ~ctxDone
    /\ ctxDone' = TRUE
    /\ UNCHANGED <<urls, Workers, mainpc, nspawned, tpc, sem, results,
                   tresult, trackers, returned, writes, parseVars, fetchVars,
                   httpVars, lexVars, emitVars, fifoVars>>

(* Variant for C15: return results without wg.Wait(). *)
PoolReturn_NoWait ==
    /\ mainpc = "loop"
    /\ nspawned = Len(urls)
    /\ mainpc' = "returned"
    /\ returned' = results
    /\ UNCHANGED <<urls, Workers, ctxDone, nspawned, tpc, sem, results,
                   tresult, trackers, writes, parseVars, fetchVars, httpVars,
                   lexVars, emitVars, fifoVars>>

(* wg.Wait(); return results *)
PoolReturn ==
    /\ mainpc = "loop"
    /\ nspawned = Len(urls)
    /\ \A t \in Threads : tpc[t] = "exit"
    /\ mainpc' = "returned"
    /\ returned' = results
    /\ UNCHANGED <<urls, Workers, ctxDone, nspawned, tpc, sem, results,
                   tresult, trackers, writes, parseVars, fetchVars, httpVars,
                   lexVars, emitVars, fifoVars>>

NextPool ==
    \/ Spawn
    \/ \E t \in Threads : Acquire(t)
    \/ \E t \in Threads : CancelBail(t)
    \/ \E t \in Threads : NewTracker(t)
    \/ \E t \in Threads : PipelineStart(t)
    \/ \E t \in Threads : PipelineReturn(t)
    \/ \E t \in Threads : Store(t)
    \/ \E t \in Threads : TrackerDone(t)
    \/ \E t \in Threads : Release(t)
    \/ Cancel
    \/ PoolReturn

SpecPool == InitPool /\ [][NextPool]_vars

(* C1: when Pool.Run returns, the slice has one entry per input URL, in    *)
(* input order, each carrying its URL; a failed pipeline does not keep the *)
(* other URLs from being reported.                                         *)
C1_OneResultPerURL ==
    mainpc = "returned" =>
        /\ Len(returned) = Len(urls)
        /\ \A i \in 1..Len(urls) : returned[i].URL = urls[i]
        /\ \A i \in 1..Len(urls) :
              \/ returned[i] = CanceledResult(urls[i])
              \/ returned[i] = tresult[i] /\ tresult[i] # NoResult

C1_Witness ==
    /\ mainpc = "returned"
    /\ Len(urls) = MaxURLs
    /\ \E i, j, k \in 1..Len(urls) :
          /\ returned[i].Err = ErrFailed
          /\ returned[j].Err = ErrNone
          /\ returned[k].Err = ErrCanceled

(***************************************************************************)
(* Streaming parser: StreamParse, streamProviderReferences,                *)
(* streamInNetwork and its element workers.                                *)
(***************************************************************************)
KeyRefs == "provider_references"
KeyInNet == "in_network"
KeyOther == "reporting_entity_name"

Member(k, v) == [key |-> k, val |-> v]

Shapes ==
    { <<KeyRefs, KeyInNet>>,
      <<KeyInNet, KeyRefs>>,
      <<KeyInNet>>,
      <<KeyOther, KeyRefs, KeyInNet>>,
      <<KeyInNet, KeyOther, KeyRefs>> }

RefArrays == BoundedSubSeqs(RefPalette, MaxElems)

InArrays == BoundedSubSeqs(InPalette, MaxElems)

(***************************************************************************)
(* The token stream json.Decoder.Token() delivers for a value: delimiters, *)
(* strings (keys included) and other primitives.                           *)
(***************************************************************************)
TStr == "str"
TPrim == "prim"

RECURSIVE Flatten(_)
Flatten(ss) == IF ss = <<>> THEN <<>> ELSE Head(ss) \o Flatten(Tail(ss))

(* An object whose member values are vals, each preceded by its key. *)
ObjTokens(vals) ==
    <<"{">> \o Flatten([i \in 1..Len(vals) |-> <<TStr>> \o vals[i]]) \o <<"}">>

ArrTokens(vals) == <<"[">> \o Flatten(vals) \o <<"]">>

GroupTokens(g) ==
    ObjTokens(<< ArrTokens([i \in 1..Len(g.npi) |-> <<TPrim>>]),
                 ObjTokens(<< <<TStr>>, <<TStr>> >>) >>)

RefTokens(ref) ==
    ObjTokens(<< <<TPrim>>,
                 ArrTokens([i \in 1..Len(ref.provider_groups) |->
                              GroupTokens(ref.provider_groups[i])]) >>)

RateTokens(nr) ==
    ObjTokens(<< ArrTokens([i \in 1..Len(nr.provider_references) |-> <<TPrim>>]),
                 ArrTokens([i \in 1..Len(nr.provider_groups) |->
                              GroupTokens(nr.provider_groups[i])]),
                 ArrTokens([i \in 1..Len(nr.negotiated_prices) |->
                              ObjTokens(<< <<TPrim>>, <<TStr>> >>)]) >>)

ItemTokens(item) ==
    ObjTokens(<< <<TStr>>, <<TStr>>, <<TStr>>,
                 ArrTokens([i \in 1..Len(item.negotiated_rates) |->
                              RateTokens(item.negotiated_rates[i])]) >>)

(* The value of an unknown key is kept as its tokens. *)
MemberTokens(mem) ==
    IF mem.key = KeyRefs
    THEN ArrTokens([i \in 1..Len(mem.val) |-> RefTokens(mem.val[i])])
    ELSE IF mem.key = KeyInNet
    THEN ArrTokens([i \in 1..Len(mem.val) |-> ItemTokens(mem.val[i])])
    ELSE mem.val

(* "reporting_entity_name": "Test Health Plan" *)
OtherDefault == <<TStr>>

MakeDocWith(shape, refs, ins, other) ==
    [i \in 1..Len(shape) |->
        Member(shape[i],
               IF shape[i] = KeyRefs THEN refs
               ELSE IF shape[i] = KeyInNet THEN ins ELSE other)]

MakeDoc(shape, refs, ins) == MakeDocWith(shape, refs, ins, OtherDefault)

Docs == { MakeDoc(sh, r, i) : sh \in Shapes, r \in RefArrays, i \in InArrays }

SourceFile == "u1"

ElemWorkers == 1..numWorkers

(* What a harness sets up before it calls StreamParse. *)
CallStreamParse(pb) ==
    /\ prebuilt' = pb
    /\ ppc' = "start"
    /\ mi' = 0
    /\ ei' = 0
    /\ raw' = <<>>
    /\ ch' = <<>>
    /\ chClosed' = FALSE
    /\ wpc' = [w \in ElemWorkers |-> "off"]
    /\ wq' = [w \in ElemWorkers |-> <<>>]

RECURSIVE IndexRefs(_, _, _, _)
IndexRefs(m, refs, targets, simd) ==
    IF refs = <<>> THEN m
    ELSE IndexRefs(IndexRefElement(m, Head(refs), targets, simd), Tail(refs),
                   targets, simd)

(* The index a first pass over the members of d hands to a second pass. *)
RECURSIVE IndexOfDoc(_, _, _, _)
IndexOfDoc(m, d, targets, simd) ==
    IF d = <<>> THEN m
    ELSE IndexOfDoc(IF Head(d).key = KeyRefs
                    THEN IndexRefs(m, Head(d).val, targets, simd) ELSE m,
                    Tail(d), targets, simd)

InitParseWith(h, docs, pbs, downloads) ==
    /\ PoolIdle
    /\ HttpIdle
    /\ LexIdle
    /\ EmitIdle
    /\ FifoIdle
    /\ \E d \in downloads : contentLength = d.cl /\ countN = d.n
    /\ resultErr = NoErr
    /\ doc \in docs
    /\ targetNPIs \in TargetChoices
    /\ useSimd \in BOOLEAN
    /\ numWorkers \in 1..MaxP
    /\ harness = h
    /\ pass = 1
    /\ prebuilt \in pbs
    /\ ppc = "start"
    /\ mi = 0
    /\ ei = 0
    /\ matched = IF prebuilt
                 THEN IndexOfDoc(EmptyIndex, doc, targetNPIs, useSimd)
                 ELSE EmptyIndex
    /\ seenProviderRefs = FALSE
    /\ skippedInNetwork = FALSE
    /\ refsCount = 0
    /\ ch = <<>>
    /\ chClosed = FALSE
    /\ raw = <<>>
    /\ wpc = [w \in ElemWorkers |-> "off"]
    /\ wq = [w \in ElemWorkers |-> <<>>]
    /\ Results = <<>>
    /\ warnings = 0
    /\ refsScanned = 0
    /\ codesScanned = 0
    /\ sr = <<>>
    /\ hist = <<>>

InitParse(h, docs, pbs) == InitParseWith(h, docs, pbs, {FetchUndeclared})

(* Variant for C31: a second pass starts from an empty index. *)
OpenIndex_Fresh(pb, m) == EmptyIndex

(* Variant for C10: the index of the previous call is used again. *)
OpenIndex_Keep(pb, m) == m

(* matched := prebuilt; if matched == nil { matched = &MatchedProviders{} } *)
OpenIndex(pb, m) == IF pb THEN m ELSE EmptyIndex

(* The opening '{' is read. *)
StreamParseOpen ==
    /\ ppc = "start"
    /\ ppc' = "key"
    /\ mi' = 1
    /\ matched' = OpenIndex(prebuilt, matched)
    /\ seenProviderRefs' = FALSE
    /\ skippedInNetwork' = FALSE
    /\ refsCount' = 0
    /\ UNCHANGED <<poolVars, fetchVars, httpVars,
                   doc, targetNPIs, useSimd, numWorkers, harness,
                   pass, prebuilt, ei, ch, chClosed, raw, wpc, wq, Results,
                   warnings, refsScanned, codesScanned, sr, hist, lexVars,
                   emitVars, fifoVars>>

AtKey(k) == ppc = "key" /\ mi <= Len(doc) /\ doc[mi].key = k

(* dec.More(): the next token does not close the enclosing value. *)
More(toks) == toks # <<>> /\ Head(toks) \notin {"}", "]"}

(* dec.Token(): what is left, or an error at the end of the input. *)
Token(toks) ==
    IF toks = <<>> THEN [err |-> TRUE, rest |-> <<>>]
    ELSE [err |-> FALSE, rest |-> Tail(toks)]

(* Variant for C11: only the first token of the value is read. *)
skipValue_Shallow(toks) == Token(toks)

(* skipValue: the tokens left after one complete value was read. *)
RECURSIVE skipValue(_)
RECURSIVE skipObject(_)
RECURSIVE skipArray(_)
skipValue(toks) ==
    IF toks = <<>> THEN Token(toks)
    ELSE IF Head(toks) = "{" THEN skipObject(Tail(toks))
    ELSE IF Head(toks) = "[" THEN skipArray(Tail(toks))
    ELSE Token(toks)

skipObject(toks) ==
    IF More(toks)
    THEN LET v == skipValue(Token(toks).rest)
         IN  IF v.err THEN v ELSE skipObject(v.rest)
    ELSE Token(toks)

skipArray(toks) ==
    IF More(toks)
    THEN LET v == skipValue(toks)
         IN  IF v.err THEN v ELSE skipArray(v.rest)
    ELSE Token(toks)

(* The switch case calls skipValue on the member's value; the loop then    *)
(* reads the next key, which must be the next member's.                    *)
SkipMember ==
    /\ mi' = mi + 1
    /\ LET v == skipValue(MemberTokens(doc[mi]))
       IN  ppc' = IF v.err \/ v.rest # <<>> THEN "error" ELSE ppc
    /\ UNCHANGED <<poolVars, fetchVars, httpVars,
                   doc, targetNPIs, useSimd, numWorkers, harness,
                   pass, prebuilt, ei, matched, seenProviderRefs,
                   refsCount, ch, chClosed, raw, wpc, wq, Results,
                   refsScanned, codesScanned, sr, hist, lexVars, emitVars,
                   fifoVars>>

(* case "provider_references" with prebuilt != nil: skipValue, continue *)
KeyRefsSecondPass ==
    /\ AtKey(KeyRefs)
    /\ prebuilt
    /\ SkipMember
    /\ UNCHANGED <<skippedInNetwork, warnings>>

(* case "provider_references": the array's '[' is read *)
KeyRefsFirstPass ==
    /\ AtKey(KeyRefs)
    /\ ~prebuilt
    /\ seenProviderRefs' = TRUE
    /\ ppc' = "refs"
    /\ ei' = 1
    /\ UNCHANGED <<poolVars, fetchVars, httpVars,
                   doc, targetNPIs, useSimd, numWorkers, harness,
                   pass, prebuilt, mi, matched, skippedInNetwork, refsCount,
                   ch, chClosed, raw, wpc, wq, Results, warnings, refsScanned,
                   codesScanned, sr, hist, lexVars, emitVars, fifoVars>>

(* Variant for C34: the callback is not invoked. *)
onRefScanned_None(n) == n

(* atomic.AddInt64(&refsScanned, 1) *)
onRefScanned(n) == n + 1

(* atomic.AddInt64(&codesScanned, 1) *)
onCodeScanned(n) == n + 1

(* One iteration of the element loop of streamProviderReferences. *)
RefElement ==
    /\ ppc = "refs"
    /\ ei <= Len(doc[mi].val)
    /\ refsCount' = refsCount + 1
    /\ refsScanned' = onRefScanned(refsScanned)
    /\ matched' = IndexRefElement(matched, doc[mi].val[ei], targetNPIs, useSimd)
    /\ ei' = ei + 1
    /\ UNCHANGED <<poolVars, fetchVars, httpVars,
                   doc, targetNPIs, useSimd, numWorkers, harness,
                   pass, prebuilt, ppc, mi, seenProviderRefs,
                   skippedInNetwork, ch, chClosed, raw, wpc, wq, Results,
                   warnings, codesScanned, sr, hist, lexVars, emitVars,
                   fifoVars>>

(* The closing ']' of provider_references is read. *)
RefsEnd ==
    /\ ppc = "refs"
    /\ ei > Len(doc[mi].val)
    /\ ppc' = "key"
    /\ mi' = mi + 1
    /\ UNCHANGED <<poolVars, fetchVars, httpVars,
                   doc, targetNPIs, useSimd, numWorkers, harness,
                   pass, prebuilt, ei, matched, seenProviderRefs,
                   skippedInNetwork, refsCount, ch, chClosed, raw, wpc, wq,
                   Results, warnings, refsScanned, codesScanned, sr, hist,
                   lexVars, emitVars, fifoVars>>

(* Variant for C21: a prebuilt index does not stop the out-of-order skip. *)
ReversedOrder_NoPrebuilt == ~seenProviderRefs

(* Variant for C3: in_network is never treated as out of order. *)
ReversedOrder_Never == FALSE

(* case "in_network", first pass, provider_references not yet seen *)
ReversedOrder == ~prebuilt /\ ~seenProviderRefs

KeyInNetReversed ==
    /\ AtKey(KeyInNet)
    /\ ReversedOrder
    /\ warnings' = warnings + 1
    /\ skippedInNetwork' = TRUE
    /\ SkipMember

(* Variant for C12: an empty index never makes the parser skip. *)
NoMatchingProviders_Never == FALSE

(* case "in_network", provider_references had entries but none matched *)
NoMatchingProviders ==
    ~prebuilt /\ seenProviderRefs /\ refsCount > 0 /\ DOMAIN matched = {}

KeyInNetNoMatch ==
    /\ AtKey(KeyInNet)
    /\ ~ReversedOrder
    /\ NoMatchingProviders
    /\ SkipMember
    /\ UNCHANGED <<skippedInNetwork, warnings>>

(* case "in_network": streamInNetwork reads '[' and starts the workers *)
KeyInNetProcess ==
    /\ AtKey(KeyInNet)
    /\ ~ReversedOrder
    /\ ~NoMatchingProviders
    /\ ppc' = "innet"
    /\ ei' = 1
    /\ ch' = <<>>
    /\ chClosed' = FALSE
    /\ wpc' = [w \in ElemWorkers |-> "recv"]
    /\ UNCHANGED <<poolVars, fetchVars, httpVars,
                   doc, targetNPIs, useSimd, numWorkers, harness,
                   pass, prebuilt, mi, matched, seenProviderRefs,
                   skippedInNetwork, refsCount, raw, wq, Results, warnings,
                   refsScanned, codesScanned, sr, hist, lexVars, emitVars,
                   fifoVars>>

(* default: skipValue *)
KeyDefault ==
    /\ AtKey(KeyOther)
    /\ SkipMember
    /\ UNCHANGED <<skippedInNetwork, warnings>>

(* dec.Decode(&raw); onCodeScanned() *)
InNetDecode ==
    /\ ppc = "innet"
    /\ raw = <<>>
    /\ ei <= Len(doc[mi].val)
    /\ raw' = <<doc[mi].val[ei]>>
    /\ ei' = ei + 1
    /\ codesScanned' = onCodeScanned(codesScanned)
    /\ UNCHANGED <<poolVars, fetchVars, httpVars,
                   doc, targetNPIs, useSimd, numWorkers, harness,
                   pass, prebuilt, ppc, mi, matched, seenProviderRefs,
                   skippedInNetwork, refsCount, ch, chClosed, wpc, wq,
                   Results, warnings, refsScanned, sr, hist, lexVars,
                   emitVars, fifoVars>>

(* Variant for C33: a longer channel. *)
ChanCap_Triple == numWorkers * 3

(* make(chan json.RawMessage, numWorkers*2) *)
ChanCap == numWorkers * 2

(* ch <- raw *)
InNetSend ==
    /\ ppc = "innet"
    /\ raw # <<>>
    /\ Len(ch) < ChanCap
    /\ ch' = Append(ch, raw[1])
    /\ raw' = <<>>
    /\ UNCHANGED <<poolVars, fetchVars, httpVars,
                   doc, targetNPIs, useSimd, numWorkers, harness,
                   pass, prebuilt, ppc, mi, ei, matched, seenProviderRefs,
                   skippedInNetwork, refsCount, chClosed, wpc, wq, Results,
                   warnings, refsScanned, codesScanned, sr, hist, lexVars,
                   emitVars, fifoVars>>

(* close(ch) *)
InNetClose ==
    /\ ppc = "innet"
    /\ raw = <<>>
    /\ ei > Len(doc[mi].val)
    /\ chClosed' = TRUE
    /\ ppc' = "wait"
    /\ UNCHANGED <<poolVars, fetchVars, httpVars,
                   doc, targetNPIs, useSimd, numWorkers, harness,
                   pass, prebuilt, mi, ei, matched, seenProviderRefs,
                   skippedInNetwork, refsCount, ch, raw, wpc, wq, Results,
                   warnings, refsScanned, codesScanned, sr, hist, lexVars,
                   emitVars, fifoVars>>

(* Variant for C9: streamInNetwork does not wait for its workers. *)
WorkersDone_NoWait == TRUE

(* What wg.Wait() waits for. *)
WorkersDone == \A w \in ElemWorkers : wpc[w] = "exit"

(* wg.Wait() returns and the closing ']' is read. *)
InNetEnd ==
    /\ ppc = "wait"
    /\ WorkersDone
    /\ ppc' = "key"
    /\ mi' = mi + 1
    /\ wpc' = [w \in ElemWorkers |-> "off"]
    /\ UNCHANGED <<poolVars, fetchVars, httpVars,
                   doc, targetNPIs, useSimd, numWorkers, harness,
                   pass, prebuilt, ei, matched, seenProviderRefs,
                   skippedInNetwork, refsCount, ch, chClosed, raw, wq,
                   Results, warnings, refsScanned, codesScanned, sr, hist,
                   lexVars, emitVars, fifoVars>>

(* for raw := range ch { processInNetworkElement(raw, ...) } *)
WorkerRecv(w) ==
    /\ wpc[w] = "recv"
    /\ ch # <<>>
    /\ LET rs == processInNetworkElement(Head(ch), targetNPIs, matched,
                                         SourceFile, useSimd)
       IN  /\ wq' = [wq EXCEPT ![w] = rs]
           /\ wpc' = [wpc EXCEPT ![w] = IF rs = <<>> THEN "recv" ELSE "emit"]
    /\ ch' = Tail(ch)
    /\ UNCHANGED <<poolVars, fetchVars, httpVars,
                   doc, targetNPIs, useSimd, numWorkers, harness,
                   pass, prebuilt, ppc, mi, ei, matched, seenProviderRefs,
                   skippedInNetwork, refsCount, chClosed, raw, Results,
                   warnings, refsScanned, codesScanned, sr, hist, lexVars,
                   emitVars, fifoVars>>

(* emitFunc: mu.Lock(); result.Results = append(result.Results, r) *)
emitFunc(buf, r) == Append(buf, r)

WorkerEmit(w) ==
    /\ wpc[w] = "emit"
    /\ Results' = emitFunc(Results, Head(wq[w]))
    /\ wq' = [wq EXCEPT ![w] = Tail(@)]
    /\ wpc' = [wpc EXCEPT ![w] = IF Tail(wq[w]) = <<>> THEN "recv" ELSE "emit"]
    /\ UNCHANGED <<poolVars, fetchVars, httpVars,
                   doc, targetNPIs, useSimd, numWorkers, harness,
                   pass, prebuilt, ppc, mi, ei, matched, seenProviderRefs,
                   skippedInNetwork, refsCount, ch, chClosed, raw, warnings,
                   refsScanned, codesScanned, sr, hist, lexVars, emitVars,
                   fifoVars>>

(* The range loop ends on the closed, drained channel; wg.Done(). *)
WorkerExit(w) ==
    /\ wpc[w] = "recv"
    /\ ch = <<>>
    /\ chClosed
    /\ wpc' = [wpc EXCEPT ![w] = "exit"]
    /\ UNCHANGED <<poolVars, fetchVars, httpVars,
                   doc, targetNPIs, useSimd, numWorkers, harness,
                   pass, prebuilt, ppc, mi, ei, matched, seenProviderRefs,
                   skippedInNetwork, refsCount, ch, chClosed, raw, wq,
                   Results, warnings, refsScanned, codesScanned, sr, hist,
                   lexVars, emitVars, fifoVars>>

(* Variant for C4: a skipped in_network alone asks for a second pass. *)
NeedSecondPass_SkippedOnly(skipped, m) == skipped

(* NeedSecondPass: skippedInNetwork && len(matched.ByGroupID) > 0 *)
NeedSecondPass(skipped, m) == skipped /\ DOMAIN m # {}

StreamResult(skipped, m) ==
    [NeedSecondPass |-> NeedSecondPass(skipped, m), MatchedProviders |-> m]

(* What a harness records when a call returns. *)
CallRecord(res) ==
    [sr |-> res, emitted |-> BagOfSeq(Results), warnings |-> warnings,
     prebuilt |-> prebuilt, pass |-> pass, doc |-> doc]

(* The closing '}' is read and StreamParse returns. *)
StreamParseReturn ==
    /\ ppc = "key"
    /\ mi > Len(doc)
    /\ ppc' = "returned"
    /\ sr' = <<StreamResult(skippedInNetwork, matched)>>
    /\ hist' = Append(hist, CallRecord(StreamResult(skippedInNetwork, matched)))
    /\ UNCHANGED <<poolVars, fetchVars, httpVars,
                   doc, targetNPIs, useSimd, numWorkers, harness,
                   pass, prebuilt, mi, ei, matched, seenProviderRefs,
                   skippedInNetwork, refsCount, ch, chClosed, raw, wpc, wq,
                   Results, warnings, refsScanned, codesScanned, lexVars,
                   emitVars, fifoVars>>

NextStreamParse ==
    \/ StreamParseOpen
    \/ KeyRefsSecondPass
    \/ KeyRefsFirstPass
    \/ RefElement
    \/ RefsEnd
    \/ KeyInNetReversed
    \/ KeyInNetNoMatch
    \/ KeyInNetProcess
    \/ KeyDefault
    \/ InNetDecode
    \/ InNetSend
    \/ InNetClose
    \/ InNetEnd
    \/ \E w \in ElemWorkers : WorkerRecv(w)
    \/ \E w \in ElemWorkers : WorkerEmit(w)
    \/ \E w \in ElemWorkers : WorkerExit(w)
    \/ StreamParseReturn

(***************************************************************************)
(* runPipelineStreaming: the first call, and the second pass when the      *)
(* first call asks for one.                                                *)
(***************************************************************************)
(* if streamResult.NeedSecondPass { downloadAndParse(..., MatchedProviders) } *)
PipelineHarness ==
    harness \in {"pipeline", "order", "reordered", "unknown", "stripped",
                 "failing"}

(* Variant for C20: the byte count is never compared. *)
Truncated_Never == FALSE

(* resp.ContentLength > 0 && countReader.n != resp.ContentLength *)
Truncated == contentLength > 0 /\ countN[pass] # contentLength

SecondPass ==
    /\ PipelineHarness
    /\ ppc = "returned"
    /\ ~Truncated
    /\ pass = 1
    /\ sr[1].NeedSecondPass
    /\ pass' = 2
    /\ matched' = sr[1].MatchedProviders
    /\ CallStreamParse(TRUE)
    /\ UNCHANGED <<poolVars, fetchVars, httpVars,
                   doc, targetNPIs, useSimd, numWorkers, harness,
                   seenProviderRefs, skippedInNetwork, refsCount, Results,
                   warnings, refsScanned, codesScanned, sr, hist, lexVars,
                   emitVars, fifoVars>>

(* return result *)
PipelineDone ==
    /\ PipelineHarness
    /\ ppc = "returned"
    /\ ~Truncated
    /\ pass = 2 \/ ~sr[1].NeedSecondPass
    /\ ppc' = "done"
    /\ UNCHANGED <<poolVars, fetchVars, httpVars,
                   doc, targetNPIs, useSimd, numWorkers, harness,
                   pass, prebuilt, mi, ei, matched, seenProviderRefs,
                   skippedInNetwork, refsCount, ch, chClosed, raw, wpc, wq,
                   Results, warnings, refsScanned, codesScanned, sr, hist,
                   lexVars, emitVars, fifoVars>>

InitStream == InitParse("pipeline", Docs, {FALSE})

NextStream == NextStreamParse \/ SecondPass \/ PipelineDone

SpecStream == InitStream /\ [][NextStream]_vars

(***************************************************************************)
(* The same content under both key orders: the per-URL pipeline runs on    *)
(* the document, then on the document with its members reversed.           *)
(***************************************************************************)
Reverse(s) == [i \in 1..Len(s) |-> s[Len(s) + 1 - i]]

OrderShapes == { <<KeyRefs, KeyInNet>>, <<KeyRefs, KeyOther, KeyInNet>> }

OrderDocs ==
    { MakeDoc(sh, r, i) : sh \in OrderShapes, r \in RefArrays, i \in InArrays }

InitOrder == InitParse("order", OrderDocs, {FALSE})

(* The second run: a new result, a new tracker, a new stream. *)
Reorder ==
    /\ harness = "order"
    /\ ppc = "done"
    /\ harness' = "reordered"
    /\ doc' = Reverse(doc)
    /\ pass' = 1
    /\ Results' = <<>>
    /\ warnings' = 0
    /\ refsScanned' = 0
    /\ codesScanned' = 0
    /\ sr' = <<>>
    /\ CallStreamParse(FALSE)
    /\ UNCHANGED <<poolVars, fetchVars, httpVars,
                   targetNPIs, useSimd, numWorkers, matched,
                   seenProviderRefs, skippedInNetwork, refsCount, hist,
                   lexVars, emitVars, fifoVars>>

NextOrder == NextStream \/ Reorder

SpecOrder == InitOrder /\ [][NextOrder]_vars

(***************************************************************************)
(* StreamParse called twice with the same arguments.                       *)
(***************************************************************************)
TwiceShapes == { <<KeyRefs, KeyInNet>>, <<KeyInNet, KeyOther, KeyRefs>> }

TwiceDocs ==
    { MakeDoc(sh, r, i) : sh \in TwiceShapes, r \in RefArrays, i \in InArrays }

InitTwice == InitParse("twice", TwiceDocs, BOOLEAN)

(* The second call: same document, same targets, same prebuilt pointer. *)
ParseAgain ==
    /\ harness = "twice"
    /\ ppc = "returned"
    /\ harness' = "again"
    /\ pass' = 2
    /\ Results' = <<>>
    /\ warnings' = 0
    /\ CallStreamParse(prebuilt)
    /\ UNCHANGED <<poolVars, fetchVars, httpVars,
                   doc, targetNPIs, useSimd, numWorkers, matched,
                   seenProviderRefs, skippedInNetwork, refsCount, refsScanned,
                   codesScanned, sr, hist, lexVars, emitVars, fifoVars>>

TwiceDone ==
    /\ harness = "again"
    /\ ppc = "returned"
    /\ ppc' = "done"
    /\ UNCHANGED <<poolVars, fetchVars, httpVars,
                   doc, targetNPIs, useSimd, numWorkers, harness,
                   pass, prebuilt, mi, ei, matched, seenProviderRefs,
                   skippedInNetwork, refsCount, ch, chClosed, raw, wpc, wq,
                   Results, warnings, refsScanned, codesScanned, sr, hist,
                   lexVars, emitVars, fifoVars>>

NextTwice == NextStreamParse \/ ParseAgain \/ TwiceDone

SpecTwice == InitTwice /\ [][NextTwice]_vars

(***************************************************************************)
(* Unknown top-level keys: the pipeline runs on a document with unknown    *)
(* keys, then on the same document without them.                           *)
(***************************************************************************)
UnknownValues ==
    { <<TStr>>,
      <<TPrim>>,
      <<"{", "}">>,
      <<"{", TStr, "[", TPrim, "{", TStr, TStr, "}", "]", TStr, TPrim, "}">>,
      <<"[", "[", "]", TStr, "{", TStr, "[", TPrim, "]", "}", "]">> }

UnknownShapes ==
    { <<KeyOther, KeyRefs, KeyInNet>>,
      <<KeyRefs, KeyOther, KeyInNet>>,
      <<KeyRefs, KeyInNet, KeyOther>>,
      <<KeyInNet, KeyOther, KeyRefs, KeyOther>> }

UnknownRefArrays == BoundedSubSeqs(SubSeq(RefPalette, 1, 2), MaxElems)

UnknownInArrays == BoundedSubSeqs(<<InPalette[1], InPalette[3]>>, MaxElems)

UnknownDocs ==
    { MakeDocWith(sh, r, i, o) : sh \in UnknownShapes, r \in UnknownRefArrays,
                                 i \in UnknownInArrays, o \in UnknownValues }

StripUnknown(d) == SelectSeq(d, LAMBDA mem : mem.key \in {KeyRefs, KeyInNet})

InitUnknown == InitParse("unknown", UnknownDocs, {FALSE})

(* The second run: the same document without its unknown keys. *)
Strip ==
    /\ harness = "unknown"
    /\ ppc = "done"
    /\ harness' = "stripped"
    /\ doc' = StripUnknown(doc)
    /\ pass' = 1
    /\ Results' = <<>>
    /\ warnings' = 0
    /\ refsScanned' = 0
    /\ codesScanned' = 0
    /\ sr' = <<>>
    /\ CallStreamParse(FALSE)
    /\ UNCHANGED <<poolVars, fetchVars, httpVars,
                   targetNPIs, useSimd, numWorkers, matched,
                   seenProviderRefs, skippedInNetwork, refsCount, hist,
                   lexVars, emitVars, fifoVars>>

NextUnknown == NextStream \/ Strip

SpecUnknown == InitUnknown /\ [][NextUnknown]_vars

(***************************************************************************)
(* The serial streamInNetwork of the single-threaded parser, and the       *)
(* pipeline with it in place of the element workers.                       *)
(***************************************************************************)
RECURSIVE SerialInNetwork(_, _, _, _, _)
SerialInNetwork(items, targets, m, src, simd) ==
    IF items = <<>> THEN <<>>
    ELSE processInNetworkElement(Head(items), targets, m, src, simd)
         \o SerialInNetwork(Tail(items), targets, m, src, simd)

SerialMember(st, h, pb, targets, simd) ==
    IF h.key = KeyRefs
    THEN IF pb THEN st
         ELSE [st EXCEPT !.seen = TRUE, !.refs = @ + Len(h.val),
                         !.m = IndexRefs(@, h.val, targets, simd)]
    ELSE IF h.key = KeyInNet
    THEN IF ~pb /\ ~st.seen THEN [st EXCEPT !.skipped = TRUE]
         ELSE IF ~pb /\ st.seen /\ st.refs > 0 /\ DOMAIN st.m = {} THEN st
         ELSE [st EXCEPT !.out = @ \o SerialInNetwork(h.val, targets, st.m,
                                                      SourceFile, simd)]
    ELSE st

RECURSIVE SerialMembers(_, _, _, _, _)
SerialMembers(d, st, pb, targets, simd) ==
    IF d = <<>> THEN st
    ELSE SerialMembers(Tail(d), SerialMember(st, Head(d), pb, targets, simd),
                       pb, targets, simd)

SerialStreamParse(d, pb, m0, targets, simd) ==
    SerialMembers(d, [m |-> OpenIndex(pb, m0), seen |-> FALSE,
                      skipped |-> FALSE, refs |-> 0, out |-> <<>>],
                  pb, targets, simd)

SerialPipeline(d, targets, simd) ==
    LET a == SerialStreamParse(d, FALSE, EmptyIndex, targets, simd)
    IN  IF NeedSecondPass(a.skipped, a.m)
        THEN a.out \o SerialStreamParse(d, TRUE, a.m, targets, simd).out
        ELSE a.out

(***************************************************************************)
(* What a document contains, read off the document alone.                  *)
(***************************************************************************)
RECURSIVE MemberValues(_, _)
MemberValues(d, k) ==
    IF d = <<>> THEN <<>>
    ELSE (IF Head(d).key = k THEN Head(d).val ELSE <<>>)
         \o MemberValues(Tail(d), k)

DocRefs(d) == MemberValues(d, KeyRefs)

DocItems(d) == MemberValues(d, KeyInNet)

KeyCount(d, k) == Cardinality({i \in 1..Len(d) : d[i].key = k})

GroupHasTarget(g, targets) == \E n \in Range(g.npi) : n \in targets

RefHasTarget(ref, targets) ==
    \E g \in Range(ref.provider_groups) : GroupHasTarget(g, targets)

DocHasTargetRef(d, targets) ==
    \E ref \in Range(DocRefs(d)) : RefHasTarget(ref, targets)

(* Some in_network member comes before every provider_references member. *)
InNetworkFirst(d) ==
    \E i \in 1..Len(d) :
        /\ d[i].key = KeyInNet
        /\ \A j \in 1..(i - 1) : d[j].key # KeyRefs

GroupTargets(g, targets) ==
    Cardinality({i \in 1..Len(g.npi) : g.npi[i] \in targets})

GroupsTargets(gs, targets) ==
    SeqSum([i \in 1..Len(gs) |-> GroupTargets(gs[i], targets)])

(* Target-matching providers registered under the id token. *)
IdTargets(id, d, targets) ==
    SeqSum([i \in 1..Len(DocRefs(d)) |->
              IF DocRefs(d)[i].provider_group_id = id
              THEN GroupsTargets(DocRefs(d)[i].provider_groups, targets)
              ELSE 0])

(* K of one negotiated rate: its target-matching providers. *)
RateK(nr, d, targets) ==
    SeqSum([i \in 1..Len(nr.provider_references) |->
              IdTargets(nr.provider_references[i], d, targets)])
    + GroupsTargets(nr.provider_groups, targets)

(* The sum of K * M over the rates of one element. *)
ElementKM(item, d, targets) ==
    SeqSum([r \in 1..Len(item.negotiated_rates) |->
              RateK(item.negotiated_rates[r], d, targets)
              * Len(item.negotiated_rates[r].negotiated_prices)])

CodeCount(rs, code) ==
    Cardinality({i \in 1..Len(rs) : rs[i].billing_code = code})

(***************************************************************************)
(* Claims about the parser and the per-URL pipeline.                       *)
(***************************************************************************)
ResultBag == BagOfSeq(Results)

(* The final results of the first run, once the document was reordered. *)
FirstRunFinal ==
    LET recs == SelectSeq(hist, LAMBDA h : h.doc # doc)
    IN  recs[Len(recs)].emitted

(* C2: every emitted RateResult, in either pass and under every            *)
(* interleaving of the element workers, carries an NPI of the target set.  *)
C2_EmittedNPIsAreTargets ==
    \A i \in 1..Len(Results) : Results[i].npi \in targetNPIs

(* A second pass has emitted a result for a provider group that also       *)
(* lists an NPI outside the target set.                                    *)
C2_Witness ==
    /\ pass = 2
    /\ ppc = "done"
    /\ numWorkers > 1
    /\ \E ref \in Range(DocRefs(doc)) :
          \E g \in Range(ref.provider_groups) :
             /\ \E n \in Range(g.npi) : n \notin targetNPIs
             /\ \E i \in 1..Len(Results) :
                   Results[i].tin = g.tin /\ Results[i].npi \in Range(g.npi)

(* C3: with in_network before provider_references and a target NPI in      *)
(* provider_references, the first call returns needSecondPass, emits       *)
(* nothing and warns exactly once; the second call, given the returned     *)
(* index, brings the results to those of the same content in normal order. *)
C3_ReversedOrderTwoPass ==
    (harness = "reordered" /\ DocHasTargetRef(doc, targetNPIs)) =>
        /\ \A k \in 1..Len(hist) :
              (hist[k].doc = doc /\ hist[k].pass = 1) =>
                  /\ hist[k].sr.NeedSecondPass
                  /\ hist[k].emitted = EmptyBag
                  /\ hist[k].warnings = 1
        /\ ppc = "done" =>
              /\ pass = 2
              /\ prebuilt
              /\ ResultBag = FirstRunFinal

C3_Witness ==
    /\ harness = "reordered"
    /\ DocHasTargetRef(doc, targetNPIs)
    /\ ppc = "done"
    /\ pass = 2
    /\ Len(Results) > 1
    /\ warnings = 1

(* C4: a first-pass call returns needSecondPass exactly when an in_network *)
(* value came before provider_references and the index it built is         *)
(* non-empty, which is when provider_references holds a target NPI.        *)
C4_NeedSecondPass ==
    \A k \in 1..Len(hist) :
        ~hist[k].prebuilt =>
            /\ hist[k].sr.NeedSecondPass =
                  (InNetworkFirst(hist[k].doc)
                   /\ DOMAIN hist[k].sr.MatchedProviders # {})
            /\ (DOMAIN hist[k].sr.MatchedProviders # {}) =
                  DocHasTargetRef(hist[k].doc, targetNPIs)

(* A reversed-order document whose provider_references hold entries but    *)
(* no target NPI: the call has returned without asking for a second pass.  *)
C4_Witness ==
    /\ Len(hist) = 1
    /\ ~hist[1].prebuilt
    /\ InNetworkFirst(doc)
    /\ DocRefs(doc) # <<>>
    /\ ~DocHasTargetRef(doc, targetNPIs)
    /\ ~hist[1].sr.NeedSecondPass
    /\ DocItems(doc) # <<>>

(* C5: provider_group_id values that share an integer part but differ      *)
(* numerically get entries of their own in the index, and every result is  *)
(* for a provider registered under an id its rate references (or listed    *)
(* inline in that rate).                                                   *)
MatchedIds(d, targets) ==
    { ref.provider_group_id :
        ref \in { r \in Range(DocRefs(d)) : RefHasTarget(r, targets) } }

Justified(r, d) ==
    \E item \in Range(DocItems(d)) :
        /\ item.billing_code = r.billing_code
        /\ \E nr \in Range(item.negotiated_rates) :
              /\ r.negotiated_rate \in Range(nr.negotiated_prices)
              /\ \/ \E id \in Range(nr.provider_references) :
                       \E ref \in Range(DocRefs(d)) :
                          /\ ref.provider_group_id = id
                          /\ \E g \in Range(ref.provider_groups) :
                                g.tin = r.tin /\ r.npi \in Range(g.npi)
                 \/ \E g \in Range(nr.provider_groups) :
                       g.tin = r.tin /\ r.npi \in Range(g.npi)

C5_FractionalIdsDistinct ==
    /\ \A k \in 1..Len(hist) :
          ~hist[k].prebuilt =>
              Cardinality(DOMAIN hist[k].sr.MatchedProviders)
                  = Cardinality(MatchedIds(hist[k].doc, targetNPIs))
    /\ \A i \in 1..Len(Results) : Justified(Results[i], doc)

(* Two matched ids share their integer part, and an element whose rate     *)
(* references only one of them has produced results.                       *)
C5_Witness ==
    /\ ppc = "done"
    /\ \E a, b \in MatchedIds(doc, targetNPIs) :
          /\ a.ip = b.ip
          /\ a # b
          /\ \E item \in Range(DocItems(doc)) :
                /\ \E nr \in Range(item.negotiated_rates) :
                      /\ a \in Range(nr.provider_references)
                      /\ b \notin Range(nr.provider_references)
                /\ CodeCount(Results, item.billing_code) > 0

(* C6: for the same content, the results finally produced for the URL are  *)
(* the same multiset whether provider_references precedes in_network or    *)
(* follows it.                                                             *)
C6_SameResultsEitherOrder ==
    (harness = "reordered" /\ ppc = "done") =>
        ResultBag = FirstRunFinal

(* With an empty provider_references array and an inline match, the run    *)
(* in normal order has emitted results and the run with in_network first   *)
(* has ended with none and without a second pass.                          *)
C6_Witness ==
    /\ harness = "reordered"
    /\ ppc = "done"
    /\ pass = 1
    /\ DocRefs(doc) = <<>>
    /\ Results = <<>>
    /\ FirstRunFinal # EmptyBag

(* C7: with an empty provider_references array, every in_network rate      *)
(* whose inline provider_groups list a target NPI is emitted, once per     *)
(* price.                                                                  *)
EmptyProviderRefs(d) == KeyCount(d, KeyRefs) > 0 /\ DocRefs(d) = <<>>

InlineEmitted(d, targets, rs) ==
    \A item \in Range(DocItems(d)) :
        \A nr \in Range(item.negotiated_rates) :
            \A g \in Range(nr.provider_groups) :
                \A n \in Range(g.npi) \cap targets :
                    \A price \in Range(nr.negotiated_prices) :
                        RateResult(SourceFile, ProviderInfo(n, g.tin), item,
                                   price) \in Range(rs)

C7_InlineWithEmptyRefs ==
    (ppc = "done" /\ EmptyProviderRefs(doc)) =>
        InlineEmitted(doc, targetNPIs, Results)

(* in_network came first, provider_references is empty, an inline group    *)
(* lists a target NPI, and the URL has ended without results.              *)
C7_Witness ==
    /\ ppc = "done"
    /\ EmptyProviderRefs(doc)
    /\ InNetworkFirst(doc)
    /\ ~InlineEmitted(doc, targetNPIs, Results)
    /\ Results = <<>>

(* C8: an in_network element with K target-matching providers and M        *)
(* prices contributes exactly K * M results (summed over its rates), one   *)
(* per (provider, price) pair, nothing merged and nothing dropped.         *)
ProcessedOnce(d) ==
    KeyCount(d, KeyInNet) = 1 /\ codesScanned = Len(DocItems(d))

C8_KTimesM ==
    (ppc = "done" /\ harness = "pipeline" /\ ProcessedOnce(doc)) =>
        \A item \in Range(DocItems(doc)) :
            CodeCount(Results, item.billing_code)
                = ElementKM(item, doc, targetNPIs)

(* An element with one rate, K = 3 providers and M = 2 prices has          *)
(* produced its 6 results.                                                 *)
C8_Witness ==
    /\ ppc = "done"
    /\ ProcessedOnce(doc)
    /\ \E item \in Range(DocItems(doc)) :
          /\ Len(item.negotiated_rates) = 1
          /\ RateK(item.negotiated_rates[1], doc, targetNPIs) = 3
          /\ Len(item.negotiated_rates[1].negotiated_prices) = 2
          /\ CodeCount(Results, item.billing_code) = 6

(* C9: whatever the number of element workers and their interleaving, the  *)
(* multiset of results of a URL is that of processing the elements         *)
(* serially.                                                               *)
C9_WorkerCountIndependent ==
    (ppc = "done" /\ harness = "pipeline") =>
        ResultBag = BagOfSeq(SerialPipeline(doc, targetNPIs, useSimd))

(* Two workers have finished a URL with the results in another order than  *)
(* the serial one.                                                         *)
C9_Witness ==
    /\ ppc = "done"
    /\ numWorkers = 2
    /\ Len(Results) > 2
    /\ Results # SerialPipeline(doc, targetNPIs, useSimd)

(* C10: two calls with the same document, targets and prebuilt index       *)
(* return the same multiset of results, the same needSecondPass and the    *)
(* same index, and leave the prebuilt index as it was given.               *)
C10_Idempotent ==
    (harness = "again" /\ ppc = "done") =>
        /\ Len(hist) = 2
        /\ hist[1].emitted = hist[2].emitted
        /\ hist[1].sr = hist[2].sr
        /\ prebuilt =>
              matched = IndexOfDoc(EmptyIndex, doc, targetNPIs, useSimd)

(* Both calls were given the same non-empty prebuilt index and emitted.    *)
C10_Witness ==
    /\ harness = "again"
    /\ ppc = "done"
    /\ prebuilt
    /\ DOMAIN matched # {}
    /\ BagCardinality(hist[2].emitted) > 1

(* C11: unknown top-level keys of any JSON type, at any position, change   *)
(* nothing: every call on the document returns the index and the           *)
(* needSecondPass, and has emitted the multiset, of the same call on the   *)
(* document without those keys, and no call fails on them.                 *)
SameCalls(h1, h2) ==
    /\ h1.pass = h2.pass
    /\ h1.prebuilt = h2.prebuilt
    /\ h1.sr = h2.sr
    /\ h1.emitted = h2.emitted
    /\ h1.warnings = h2.warnings

C11_UnknownKeysIgnored ==
    /\ harness \in {"unknown", "stripped"} => ppc # "error"
    /\ harness = "stripped" =>
          LET first == SelectSeq(hist, LAMBDA h : h.doc # doc)
              second == SelectSeq(hist, LAMBDA h : h.doc = doc)
          IN  /\ Len(second) <= Len(first)
              /\ \A k \in 1..Len(second) : SameCalls(first[k], second[k])
              /\ ppc = "done" =>
                    /\ Len(second) = Len(first)
                    /\ ResultBag = FirstRunFinal

(* Both runs are over; the first document had a nested unknown value      *)
(* ahead of the arrays and results were produced in a second pass.         *)
C11_Witness ==
    /\ harness = "stripped"
    /\ ppc = "done"
    /\ pass = 2
    /\ Results # <<>>
    /\ \E i \in 1..Len(hist[1].doc) :
          /\ hist[1].doc[i].key = KeyOther
          /\ Len(hist[1].doc[i].val) > 2

(* C12: when provider_references has entries and none lists a target NPI,  *)
(* the in_network array that follows is skipped: the URL gets no result,   *)
(* onCodeScanned is never called and needSecondPass is false.              *)
RefsWithoutMatch(d, targets) ==
    DocRefs(d) # <<>> /\ ~DocHasTargetRef(d, targets)

C12_NoMatchSkipsInNetwork ==
    (harness = "pipeline" /\ RefsWithoutMatch(doc, targetNPIs)) =>
        /\ Results = <<>>
        /\ codesScanned = 0
        /\ pass = 1
        /\ ppc \notin {"innet", "wait"}
        /\ \A k \in 1..Len(hist) : ~hist[k].sr.NeedSecondPass

(* provider_references came first with entries but no target NPI, the      *)
(* in_network array holds an inline match, and the URL is done.            *)
C12_Witness ==
    /\ harness = "pipeline"
    /\ ppc = "done"
    /\ RefsWithoutMatch(doc, targetNPIs)
    /\ ~InNetworkFirst(doc)
    /\ refsScanned > 0
    /\ \E item \in Range(DocItems(doc)) : ElementKM(item, doc, targetNPIs) > 0

(***************************************************************************)
(* runPipelineStreaming on downloads that can fail: the decoder can report *)
(* an error inside in_network, and the bytes counted at the end of a pass  *)
(* can differ from the declared content length.                            *)
(***************************************************************************)
ErrTruncated == "download truncated"

(* downloadAndParse: fmt.Errorf("stream parse: %w", err) around StreamParse's *)
(* fmt.Errorf("streaming in_network: %w", err) around streamInNetwork's    *)
(* fmt.Errorf("decoding element: %w", err).                                *)
ErrDecode == <<"stream parse", "streaming in_network", "decoding element">>

(* result.Err = err on the first pass,                                     *)
(* result.Err = fmt.Errorf("second pass: %w", err) on the second.          *)
PipelineErr(p, e) == IF p = 2 THEN <<"second pass">> \o e ELSE e

FailShapes ==
    { <<KeyRefs, KeyOther, KeyInNet>>, <<KeyInNet, KeyOther, KeyRefs>> }

FailDocs ==
    { MakeDoc(sh, r, i) :
        sh \in FailShapes, r \in UnknownRefArrays, i \in UnknownInArrays }

(* Declared lengths -1 (unknown), 0 and 3, with 2 or 3 bytes counted at    *)
(* the end of each pass.                                                   *)
Downloads == { [cl |-> c, n |-> <<a, b>>] : c \in {-1, 0, 3}, a, b \in {2, 3} }

InitFail == InitParseWith("failing", FailDocs, {FALSE}, Downloads)

(* if err := dec.Decode(&raw); err != nil { decErr = ...; break }; close(ch) *)
DecodeFail ==
    /\ harness = "failing"
    /\ ppc = "innet"
    /\ raw = <<>>
    /\ ei <= Len(doc[mi].val)
    /\ chClosed' = TRUE
    /\ ppc' = "waitfail"
    /\ UNCHANGED <<poolVars, fetchVars, httpVars,
                   doc, targetNPIs, useSimd, numWorkers, harness,
                   pass, prebuilt, mi, ei, matched, seenProviderRefs,
                   skippedInNetwork, refsCount, ch, raw, wpc, wq, Results,
                   warnings, refsScanned, codesScanned, sr, hist, lexVars,
                   emitVars, fifoVars>>

(* wg.Wait(); return nil, decErr: StreamParse and downloadAndParse return  *)
(* the error and runPipelineStreaming returns result with result.Err set.  *)
InNetFail ==
    /\ ppc = "waitfail"
    /\ WorkersDone
    /\ ppc' = "failed"
    /\ resultErr' = PipelineErr(pass, ErrDecode)
    /\ wpc' = [w \in ElemWorkers |-> "off"]
    /\ UNCHANGED <<poolVars, httpVars, contentLength, countN,
                   doc, targetNPIs, useSimd, numWorkers, harness,
                   pass, prebuilt, mi, ei, matched, seenProviderRefs,
                   skippedInNetwork, refsCount, ch, chClosed, raw, wq,
                   Results, warnings, refsScanned, codesScanned, sr, hist,
                   lexVars, emitVars, fifoVars>>

(* StreamParse returned without error and downloadAndParse finds the byte  *)
(* count off: return nil, fmt.Errorf("download truncated: ...").           *)
TruncatedReturn ==
    /\ harness = "failing"
    /\ ppc = "returned"
    /\ Truncated
    /\ ppc' = "failed"
    /\ resultErr' = PipelineErr(pass, <<ErrTruncated>>)
    /\ UNCHANGED <<poolVars, httpVars, contentLength, countN,
                   doc, targetNPIs, useSimd, numWorkers, harness,
                   pass, prebuilt, mi, ei, matched, seenProviderRefs,
                   skippedInNetwork, refsCount, ch, chClosed, raw, wpc, wq,
                   Results, warnings, refsScanned, codesScanned, sr, hist,
                   lexVars, emitVars, fifoVars>>

NextFail == NextStream \/ DecodeFail \/ InNetFail \/ TruncatedReturn

SpecFail == InitFail /\ [][NextFail]_vars

(* The *PipelineResult runPipelineStreaming hands back once it returned.   *)
StreamingResult == [URL |-> SourceFile, Err |-> resultErr, Results |-> Results]

(***************************************************************************)
(* RunPipeline with retries around DownloadHTTP.  What follows a           *)
(* successful download inside one attempt (split, parse) is reduced to its *)
(* outcome.                                                                *)
(***************************************************************************)
maxPipelineRetries == 3

(* for attempt := 0; attempt < 3; attempt++ *)
DownloadAttempts == 3

StatusOK == 200

(* What httpClient.Do can give: 0 stands for a transport error (err != nil, *)
(* no response), the others are status codes.                              *)
Responses == {0, StatusOK, 404, 503}

RECURSIVE Pow2(_)
Pow2(n) == IF n = 0 THEN 1 ELSE 2 * Pow2(n - 1)

(* delay := time.Duration(math.Pow(2, float64(attempt))) * time.Second,    *)
(* in seconds.                                                             *)
BackoffDelay(a) == Pow2(a)

(* resp.StatusCode >= 400 && resp.StatusCode < 500 *)
ClientError(r) == r >= 400 /\ r < 500

(* err = fmt.Errorf("HTTP %d", resp.StatusCode), or the transport error *)
StatusErr(r) ==
    CASE r = 0 -> "transport error"
      [] r = 404 -> "HTTP 404"
      [] r = 503 -> "HTTP 503"
      [] OTHER -> "HTTP"

ErrCtx == <<ErrCanceled>>

ErrDiskFull == <<"split", "no space left on device">>

ErrParse == <<"split", "failed">>

(* One DownloadHTTP call: the responses received, the delays waited, and   *)
(* how the call returned.                                                  *)
FetchCall(reqs, waits, ret) == [reqs |-> reqs, waits |-> waits, ret |-> ret]

CurrentFetch == fetches[Len(fetches)]

SetFetch(f) == [fetches EXCEPT ![Len(fetches)] = f]

InitFetch ==
    /\ PoolIdle
    /\ ParseIdle
    /\ FetchIdle
    /\ LexIdle
    /\ EmitIdle
    /\ FifoIdle
    /\ hpc = "ploop"
    /\ pattempt = 1
    /\ attempt = 0
    /\ fetches = <<>>
    /\ hctxDone \in BOOLEAN
    /\ sleeps = <<>>
    /\ hresult = [returned |-> FALSE, Err |-> NoErr]

Return(e) == [returned |-> TRUE, Err |-> e]

(* Variant for C25: the loop without the check of ctx.Err() at its top. *)
PipelineAttempt_NoCtxCheck ==
    /\ hpc = "ploop"
    /\ IF pattempt > maxPipelineRetries
       THEN /\ hresult' = Return(hresult.Err)
            /\ hpc' = "done"
            /\ UNCHANGED <<attempt, fetches>>
       ELSE /\ fetches' = Append(fetches, FetchCall(<<>>, <<>>, "pending"))
            /\ attempt' = 0
            /\ hpc' = "request"
            /\ UNCHANGED hresult
    /\ UNCHANGED <<poolVars, parseVars, fetchVars, sleeps,
                   pattempt, hctxDone, lexVars, emitVars, fifoVars>>

(* for attempt := 1; attempt <= maxPipelineRetries; attempt++ {            *)
(*     if ctx.Err() != nil { return ... }; runPipelineWithFile/FIFO        *)
(* } return &PipelineResult{URL: url, Err: lastErr}                        *)
PipelineAttempt ==
    /\ hpc = "ploop"
    /\ IF pattempt > maxPipelineRetries
       THEN /\ hresult' = Return(hresult.Err)
            /\ hpc' = "done"
            /\ UNCHANGED <<attempt, fetches>>
       ELSE IF hctxDone
       THEN /\ hresult' = Return(ErrCtx)
            /\ hpc' = "done"
            /\ UNCHANGED <<attempt, fetches>>
       ELSE /\ fetches' = Append(fetches, FetchCall(<<>>, <<>>, "pending"))
            /\ attempt' = 0
            /\ hpc' = "request"
            /\ UNCHANGED hresult
    /\ UNCHANGED <<poolVars, parseVars, fetchVars, sleeps,
                   pattempt, hctxDone, lexVars, emitVars, fifoVars>>

(* case <-time.After(delay): *)
Backoff ==
    /\ hpc = "backoff"
    /\ fetches' = SetFetch([CurrentFetch EXCEPT
                              !.waits = Append(@, BackoffDelay(attempt))])
    /\ hpc' = "request"
    /\ UNCHANGED <<poolVars, parseVars, fetchVars, sleeps,
                   pattempt, attempt,
                   hctxDone, hresult, lexVars, emitVars, fifoVars>>

(* case <-ctx.Done(): return nil, ctx.Err() *)
BackoffCancelled ==
    /\ hpc = "backoff"
    /\ hctxDone
    /\ fetches' = SetFetch([CurrentFetch EXCEPT !.ret = "canceled"])
    /\ hresult' = [hresult EXCEPT !.Err = <<"download">> \o ErrCtx]
    /\ hpc' = "failed"
    /\ UNCHANGED <<poolVars, parseVars, fetchVars, sleeps,
                   pattempt, attempt,
                   hctxDone, lexVars, emitVars, fifoVars>>

(* Variant for C17: a fourth attempt is allowed. *)
AttemptsLeft_Four(a) == a < DownloadAttempts + 1

(* attempt < 3 *)
AttemptsLeft(a) == a < DownloadAttempts

(* resp, err = httpClient.Do(req) and what the loop does with it: return   *)
(* the response on 200, return the error on 4xx, otherwise go round again, *)
(* through the backoff, or leave the loop after the last attempt.          *)
Do(r) ==
    /\ hpc = "request"
    /\ LET f == [CurrentFetch EXCEPT !.reqs = Append(@, r)]
       IN  IF r = StatusOK
           THEN /\ fetches' = SetFetch([f EXCEPT !.ret = "ok"])
                /\ hpc' = "body"
                /\ UNCHANGED <<attempt, hresult>>
           ELSE IF ClientError(r)
           THEN /\ fetches' = SetFetch([f EXCEPT !.ret = "client"])
                /\ hresult' = [hresult EXCEPT
                                 !.Err = <<"download", StatusErr(r)>>]
                /\ hpc' = "failed"
                /\ UNCHANGED attempt
           ELSE IF AttemptsLeft(attempt + 1)
           THEN /\ fetches' = SetFetch(f)
                /\ attempt' = attempt + 1
                /\ hpc' = "backoff"
                /\ UNCHANGED hresult
           ELSE /\ fetches' = SetFetch([f EXCEPT !.ret = "exhausted"])
                /\ attempt' = attempt + 1
                /\ hresult' = [hresult EXCEPT
                                 !.Err = <<"download",
                                           "download failed after retries",
                                           StatusErr(r)>>]
                /\ hpc' = "failed"
    /\ UNCHANGED <<poolVars, parseVars, fetchVars, sleeps,
                   pattempt, hctxDone, lexVars, emitVars, fifoVars>>

(* The attempt after its download: split and parse succeed, and            *)
(* RunPipeline returns the result.                                         *)
AttemptSucceeds ==
    /\ hpc = "body"
    /\ hresult' = Return(NoErr)
    /\ hpc' = "done"
    /\ UNCHANGED <<poolVars, parseVars, fetchVars, sleeps,
                   pattempt, attempt,
                   fetches, hctxDone, lexVars, emitVars, fifoVars>>

(* The attempt after its download fails: result.Err is set. *)
AttemptFails(e) ==
    /\ hpc = "body"
    /\ hresult' = [hresult EXCEPT !.Err = e]
    /\ hpc' = "failed"
    /\ UNCHANGED <<poolVars, parseVars, fetchVars, sleeps,
                   pattempt, attempt,
                   fetches, hctxDone, lexVars, emitVars, fifoVars>>

(* strings.Contains(err.Error(), "no space left on device") *)
isDiskFullError(e) == \E k \in 1..Len(e) : e[k] = "no space left on device"

(* fmt.Errorf("%w (available: %s in %s - use --tmp-dir ... or --workers 1  *)
(* ...)", lastErr, humanBytesWorker(avail), tmpDir)                        *)
DiskFullHint == "(available: bytes in tmpDir)"

WithDiskFullHint(e) == <<DiskFullHint>> \o e

(* Variant for C22: the same delay before every attempt. *)
RetryDelay_Fixed(a) == 2

(* delay := time.Duration(attempt) * 2 * time.Second, in seconds *)
RetryDelay(a) == a * 2

(* lastErr = result.Err; return result when the context is cancelled;      *)
(* return it with the hint when the disk is full; otherwise wait before    *)
(* the next attempt, if any.                                               *)
AttemptFailed ==
    /\ hpc = "failed"
    /\ IF hctxDone
       THEN /\ hresult' = Return(hresult.Err)
            /\ hpc' = "done"
            /\ UNCHANGED pattempt
       ELSE IF isDiskFullError(hresult.Err)
       THEN /\ hresult' = Return(WithDiskFullHint(hresult.Err))
            /\ hpc' = "done"
            /\ UNCHANGED pattempt
       ELSE IF pattempt < maxPipelineRetries
       THEN /\ hpc' = "retrywait"
            /\ UNCHANGED <<pattempt, hresult>>
       ELSE /\ pattempt' = pattempt + 1
            /\ hpc' = "ploop"
            /\ UNCHANGED hresult
    /\ UNCHANGED <<poolVars, parseVars, fetchVars, sleeps,
                   attempt, fetches,
                   hctxDone, lexVars, emitVars, fifoVars>>

(* select { case <-time.After(delay): } *)
RetryWait ==
    /\ hpc = "retrywait"
    /\ sleeps' = Append(sleeps, RetryDelay(pattempt))
    /\ pattempt' = pattempt + 1
    /\ hpc' = "ploop"
    /\ UNCHANGED <<poolVars, parseVars, fetchVars, attempt, fetches,
                   hctxDone, hresult, lexVars, emitVars, fifoVars>>

(* Variant for C24: the retry sleep does not listen to the context. *)
RetryWaitCancelled_Never == FALSE

(* select { case <-ctx.Done(): return &PipelineResult{URL: url, Err: ctx.Err()} } *)
RetryWaitCancelled ==
    /\ hpc = "retrywait"
    /\ hctxDone
    /\ hresult' = Return(ErrCtx)
    /\ hpc' = "done"
    /\ UNCHANGED <<poolVars, parseVars, fetchVars, sleeps,
                   pattempt, attempt,
                   fetches, hctxDone, lexVars, emitVars, fifoVars>>

(* The context of the pipeline is cancelled. *)
HttpCancel ==
    /\ hpc \notin {"idle", "done"}
    /\ ~hctxDone
    /\ hctxDone' = TRUE
    /\ UNCHANGED <<poolVars, parseVars, fetchVars, sleeps,
                   hpc, pattempt, attempt,
                   fetches, hresult, lexVars, emitVars, fifoVars>>

NextFetch ==
    \/ PipelineAttempt
    \/ Backoff
    \/ BackoffCancelled
    \/ \E r \in Responses : Do(r)
    \/ AttemptSucceeds
    \/ \E e \in {ErrParse, ErrDiskFull} : AttemptFails(e)
    \/ AttemptFailed
    \/ RetryWait
    \/ RetryWaitCancelled
    \/ HttpCancel

SpecFetch == InitFetch /\ [][NextFetch]_vars

(***************************************************************************)
(* Cancellation of one pipeline, of either kind: RunPipeline with its      *)
(* retries, or runPipelineStreaming reading the response body.  A server   *)
(* may hang and a timer may be far from firing, so no step that waits for  *)
(* a response, for more of the body or for a timer is assumed to happen:   *)
(* the only steps assumed are those open once the context is cancelled,    *)
(* when every request and read on the response returns and every select on *)
(* ctx.Done() is ready.                                                    *)
(***************************************************************************)
CancelDocs ==
    { MakeDoc(sh, r, i) :
        sh \in FailShapes, r \in {SubSeq(RefPalette, 1, 1)},
        i \in UnknownInArrays }

InitCancel ==
    \/ InitFetch
    \/ InitParseWith("failing", CancelDocs, {FALSE}, {FetchUndeclared})

(* The context of the streaming pipeline is cancelled. *)
StreamCancel ==
    /\ harness = "failing"
    /\ ppc \notin {"done", "failed"}
    /\ ~hctxDone
    /\ hctxDone' = TRUE
    /\ UNCHANGED <<poolVars, parseVars, fetchVars, hpc, pattempt, attempt,
                   fetches, sleeps, hresult, lexVars, emitVars, fifoVars>>

(* The steps of the streaming pipeline, when one is under way. *)
StreamStep == harness = "failing" /\ NextFail

(* The request was made with http.NewRequestWithContext(ctx, ...), so once  *)
(* the context is cancelled a read of the body returns its error: the      *)
(* decoder's Token, More or Decode fails.  Outside streamInNetwork the     *)
(* error goes straight up; inside it the decode loop breaks, closes the    *)
(* channel and waits for the workers before it returns the error.          *)
ReadCancelled ==
    /\ harness = "failing"
    /\ hctxDone
    /\ \/ /\ ppc \in {"start", "key", "refs"}
          /\ ppc' = "failed"
          /\ resultErr' = PipelineErr(pass, <<"stream parse", ErrCanceled>>)
          /\ UNCHANGED chClosed
       \/ /\ ppc = "innet"
          /\ raw = <<>>
          /\ ppc' = "waitfail"
          /\ chClosed' = TRUE
          /\ UNCHANGED resultErr
    /\ UNCHANGED <<poolVars, httpVars, contentLength, countN,
                   doc, targetNPIs, useSimd, numWorkers, harness,
                   pass, prebuilt, mi, ei, matched, seenProviderRefs,
                   skippedInNetwork, refsCount, ch, raw, wpc, wq, Results,
                   warnings, refsScanned, codesScanned, sr, hist, lexVars,
                   emitVars, fifoVars>>

(* RunPipeline against a server that answers 200 or 404 or not at all. *)
FetchStep ==
    \/ PipelineAttempt
    \/ Backoff
    \/ BackoffCancelled
    \/ \E r \in {0, StatusOK, 404} : Do(r)
    \/ AttemptSucceeds
    \/ \E e \in {ErrParse, ErrDiskFull} : AttemptFails(e)
    \/ AttemptFailed
    \/ RetryWait
    \/ RetryWaitCancelled
    \/ HttpCancel

NextCancel == FetchStep \/ StreamStep \/ StreamCancel \/ ReadCancelled

(* What RunPipeline can do without a response or a timer once the context  *)
(* is cancelled: httpClient.Do and the reads of the body return, the       *)
(* selects take their ctx.Done() case, and the code between them runs.     *)
CancelProgress ==
    \/ PipelineAttempt
    \/ BackoffCancelled
    \/ Do(0)
    \/ AttemptSucceeds
    \/ \E e \in {ErrParse, ErrDiskFull} : AttemptFails(e)
    \/ AttemptFailed
    \/ RetryWaitCancelled

(* What runPipelineStreaming can do without more of the body: the failed   *)
(* read, the send of the element in hand (the workers drain the channel),  *)
(* the workers, the waits for them, and the code after StreamParse.        *)
StreamCancelProgress ==
    \/ ReadCancelled
    \/ harness = "failing" /\
          (\/ InNetSend
           \/ \E w \in ElemWorkers :
                 WorkerRecv(w) \/ WorkerEmit(w) \/ WorkerExit(w)
           \/ InNetEnd
           \/ InNetFail
           \/ StreamParseReturn
           \/ TruncatedReturn
           \/ SecondPass
           \/ PipelineDone)

SpecCancel ==
    /\ InitCancel
    /\ [][NextCancel]_vars
    /\ WF_vars(hctxDone /\ (CancelProgress \/ StreamCancelProgress))

(***************************************************************************)
(* The pipeline over documents with malformed array elements: elements     *)
(* that are valid JSON, so that the decoder delivers them, but that        *)
(* json.Unmarshal rejects.                                                 *)
(***************************************************************************)
MalformedRef == Ref(Id(42, 1), << Group(<<12>>, BadTIN) >>)

MalformedItem ==
    Item("c5", "n5", "d5", << Rate(<<>>, << Group(<<12>>, BadTIN) >>, <<70>>) >>)

IsMalformed(e) ==
    IF "provider_group_id" \in DOMAIN e THEN RefUnmarshalFails(e)
    ELSE ItemUnmarshalFails(e)

MalformedDocs ==
    { MakeDoc(sh, r, i) :
        sh \in FailShapes,
        r \in BoundedSubSeqs(<<RefPalette[1], MalformedRef>>, MaxElems),
        i \in BoundedSubSeqs(<<InPalette[2], MalformedItem, InPalette[3]>>,
                             MaxElems) }

(* The document without its malformed elements. *)
WellFormedPart(d) ==
    [k \in 1..Len(d) |->
        IF d[k].key \in {KeyRefs, KeyInNet}
        THEN Member(d[k].key,
                    SelectSeq(d[k].val, LAMBDA e : ~IsMalformed(e)))
        ELSE d[k]]

InitMalformed == InitParse("pipeline", MalformedDocs, {FALSE})

SpecMalformed == InitMalformed /\ [][NextStream]_vars

(***************************************************************************)
(* StreamParse at the top level, over streams that are not the well-formed *)
(* documents of the harnesses above: a JSON value of any kind, whole or    *)
(* cut off after any number of tokens.  Every member is read with          *)
(* skipValue, as the members with other keys are.                          *)
(***************************************************************************)
MaxMembers == 2

SeqsUpTo(S, n) == UNION { [1..k -> S] : k \in 0..n }

Primitives == { <<TStr>>, <<TPrim>> }

(* Values a member of the top-level object can have. *)
LexValues ==
    Primitives
    \cup { ArrTokens(vs) : vs \in SeqsUpTo(Primitives, 2) }
    \cup { ObjTokens(vs) : vs \in SeqsUpTo(Primitives, 1) }

(* The well-formed top-level objects. *)
LexObjects == { ObjTokens(vs) : vs \in SeqsUpTo(LexValues, MaxMembers) }

Prefixes(toks) == { SubSeq(toks, 1, n) : n \in 0..Len(toks) }

(* Every top-level value, object or not, and every stream that ends early. *)
LexStreams == UNION { Prefixes(v) : v \in LexObjects \cup LexValues }

InitLex ==
    /\ PoolIdle
    /\ ParseIdle
    /\ FetchIdle
    /\ HttpIdle
    /\ EmitIdle
    /\ FifoIdle
    /\ input \in LexStreams
    /\ lpc = "start"
    /\ lrest = input
    /\ lres = [err |-> NoErr, result |-> FALSE]

(* return nil, fmt.Errorf(...) *)
LexFail(e) ==
    /\ lres' = [err |-> e, result |-> FALSE]
    /\ lpc' = "done"
    /\ lrest' = lrest

(* tok, err := dec.Token(); the token must be the delimiter '{' *)
LexOpen ==
    /\ lpc = "start"
    /\ IF Token(lrest).err
       THEN LexFail(<<"reading opening token", "EOF">>)
       ELSE IF Head(lrest) # "{"
       THEN LexFail(<<"expected '{'">>)
       ELSE /\ lrest' = Token(lrest).rest
            /\ lpc' = "loop"
            /\ UNCHANGED lres
    /\ UNCHANGED <<poolVars, parseVars, fetchVars, httpVars, input, emitVars,
                   fifoVars>>

(* for dec.More() { key; switch key { default: skipValue(dec) } } *)
LexMember ==
    /\ lpc = "loop"
    /\ More(lrest)
    /\ IF Head(lrest) # TStr
       THEN LexFail(<<"reading key">>)
       ELSE LET v == skipValue(Token(lrest).rest)
            IN  IF v.err
                THEN LexFail(<<"skipping key", "EOF">>)
                ELSE /\ lrest' = v.rest
                     /\ UNCHANGED <<lpc, lres>>
    /\ UNCHANGED <<poolVars, parseVars, fetchVars, httpVars, input, emitVars,
                   fifoVars>>

(* Variant for C28: the token after the loop is not looked at. *)
ClosingError_None(toks) == NoErr

(* tok, err = dec.Token(); the token must be the delimiter '}' *)
ClosingError(toks) ==
    IF Token(toks).err THEN <<"reading closing token", "EOF">>
    ELSE IF Head(toks) # "}" THEN <<"expected '}'">>
    ELSE NoErr

(* The loop has ended: the closing token is read and StreamParse returns   *)
(* &StreamResult{...}, nil, or nil and the error.                          *)
LexClose ==
    /\ lpc = "loop"
    /\ ~More(lrest)
    /\ lres' = [err |-> ClosingError(lrest),
                result |-> ClosingError(lrest) = NoErr]
    /\ lrest' = Token(lrest).rest
    /\ lpc' = "done"
    /\ UNCHANGED <<poolVars, parseVars, fetchVars, httpVars, input, emitVars,
                   fifoVars>>

NextLex == LexOpen \/ LexMember \/ LexClose

SpecLex == InitLex /\ [][NextLex]_vars

(***************************************************************************)
(* Claims about the worker pool.                                           *)
(***************************************************************************)
(* The goroutines between a successful send on sem and the deferred        *)
(* receive from it.                                                        *)
Holding ==
    {t \in Threads :
        tpc[t] \in {"acquired", "call", "running", "store", "done", "release"}}

(* The goroutines inside RunPipeline. *)
InPipeline == {t \in Threads : tpc[t] = "running"}

(* C13: at most Workers pipelines run at any moment: a goroutine is inside *)
(* RunPipeline only while it holds a slot of sem, the slots held are       *)
(* exactly the tokens in sem, and a goroutine that has left, after success *)
(* or failure, holds none.                                                 *)
C13_AtMostWPipelines ==
    harness = "idle" =>
        /\ Cardinality(InPipeline) <= Workers
        /\ InPipeline \subseteq Holding
        /\ sem = Cardinality(Holding)
        /\ sem <= Workers

(* Every slot is taken, one goroutine waits in the select, and one has     *)
(* already left after a failed pipeline.                                   *)
C13_Witness ==
    /\ Workers > 0
    /\ Cardinality(InPipeline) = Workers
    /\ \E t \in Threads : tpc[t] = "select"
    /\ \E t \in Threads : tpc[t] = "exit" /\ results[t].Err = ErrFailed

(* C14: once the context is cancelled, a goroutine still waiting in the    *)
(* select never takes a slot: it leaves through the ctx.Done() branch with *)
(* its URL and the cancellation error in its slot.                         *)
C14_NoStartAfterCancel ==
    [][\A t \in Threads :
          (ctxDone /\ tpc[t] = "select" /\ tpc'[t] # "select") =>
              /\ tpc'[t] = "exit"
              /\ results'[t] = CanceledResult(urls[t])]_vars

(* Every slot is taken, the context is cancelled, and a goroutine that was *)
(* waiting has left with the cancellation record in its slot.              *)
C14_Witness ==
    /\ ctxDone
    /\ Workers > 0
    /\ sem = Workers
    /\ \E t \in Threads :
          /\ tpc[t] = "exit"
          /\ writes[t] = <<t>>
          /\ results[t] = CanceledResult(urls[t])

(* C15: a slot of results is assigned by the goroutine of that index only  *)
(* and at most once; a goroutine that has left has assigned its slot; and  *)
(* once Pool.Run has returned every goroutine has left, every slot has     *)
(* been assigned exactly once and the slice is as the caller received it.  *)
C15_SlotsWrittenOnce ==
    harness = "idle" =>
        /\ \A i \in Threads : writes[i] \in {<<>>, <<i>>}
        /\ \A i \in Threads :
              tpc[i] \in {"done", "release", "exit"} => writes[i] = <<i>>
        /\ mainpc = "returned" =>
              /\ \A i \in Threads : tpc[i] = "exit" /\ writes[i] = <<i>>
              /\ results = returned

(* Pool.Run has returned three slots, one assigned by the cancellation     *)
(* branch and one by a goroutine whose pipeline ran.                       *)
C15_Witness ==
    /\ mainpc = "returned"
    /\ Len(urls) = MaxURLs
    /\ \E i, j \in Threads :
          /\ returned[i] = CanceledResult(urls[i]) /\ trackers[i] = <<0, 0>>
          /\ trackers[j] = <<1, 1>> /\ returned[j] = tresult[j]

(* C16: a per-URL result that carries an error carries no results, also    *)
(* when the failure comes after results were emitted or in a second pass.  *)
C16_FailedEntriesEmpty ==
    (harness = "failing" /\ ppc \in {"done", "failed"}) =>
        (StreamingResult.Err # NoErr => StreamingResult.Results = <<>>)

(* The decoder failed in the in_network array of the second pass after a   *)
(* worker had emitted results of an earlier element.                       *)
C16_Witness ==
    /\ harness = "failing"
    /\ ppc = "failed"
    /\ pass = 2
    /\ StreamingResult.Err = PipelineErr(2, ErrDecode)
    /\ StreamingResult.Results # <<>>

(* C20: when the declared content length is positive and the compressed    *)
(* bytes counted at the end of a pass differ from it, the URL does not end *)
(* in success: a pass whose parse completed ends the pipeline with the     *)
(* truncation error.                                                       *)
PassTruncated(p) == contentLength > 0 /\ countN[p] # contentLength

C20_TruncationFails ==
    harness = "failing" =>
        /\ ppc = "done" =>
              /\ resultErr = NoErr
              /\ \A p \in 1..pass : ~PassTruncated(p)
        /\ (ppc \in {"returned", "failed"} /\ Len(hist) = pass
              /\ PassTruncated(pass)) =>
              \/ ppc = "returned" /\ ~ENABLED PipelineDone /\ ~ENABLED SecondPass
              \/ ppc = "failed"
                    /\ resultErr = PipelineErr(pass, <<ErrTruncated>>)

(* The second download declared 3 bytes and 2 were counted: the pipeline   *)
(* has failed after a complete second pass that emitted results.           *)
C20_Witness ==
    /\ harness = "failing"
    /\ ppc = "failed"
    /\ pass = 2
    /\ PassTruncated(2)
    /\ Results # <<>>
    /\ resultErr = <<"second pass", ErrTruncated>>

(***************************************************************************)
(* Claims about the fetcher.                                               *)
(***************************************************************************)
Last(q) == q[Len(q)]

(* A response after which the fetcher may try again: no response at all,   *)
(* or a 5xx status.                                                        *)
TransportOr5xx(r) == r = 0 \/ (r >= 500 /\ r < 600)

(* C17: one DownloadHTTP call makes at most 3 requests; every request but  *)
(* the last of a call ended in a transport error or a 5xx; the call        *)
(* returns the response exactly when a request got 200, and returns the    *)
(* retries-exhausted error exactly when its third request failed that way. *)
C17_AtMostThreeAttempts ==
    \A k \in 1..Len(fetches) :
        LET f == fetches[k]
        IN  /\ Len(f.reqs) <= 3
            /\ \A j \in 1..(Len(f.reqs) - 1) : TransportOr5xx(f.reqs[j])
            /\ f.ret = "ok" <=> (f.reqs # <<>> /\ Last(f.reqs) = 200)
            /\ f.ret = "exhausted" <=>
                  (Len(f.reqs) = 3 /\ TransportOr5xx(Last(f.reqs)))

(* One call failed on all three requests, another got its response on the  *)
(* third.                                                                  *)
C17_Witness ==
    /\ \E k \in 1..Len(fetches) :
          fetches[k].ret = "exhausted" /\ fetches[k].reqs = <<0, 503, 0>>
    /\ \E k \in 1..Len(fetches) :
          fetches[k].ret = "ok" /\ fetches[k].reqs = <<503, 0, 200>>

(* C18: the waits before the retries of one DownloadHTTP call are 1, 2 and *)
(* 4 seconds in turn: the k-th wait lasts 2^(k-1) seconds.                 *)
C18_BackoffFromOneSecond ==
    \A k \in 1..Len(fetches) :
        \A j \in 1..Len(fetches[k].waits) :
            fetches[k].waits[j] = Pow2(j - 1)

(* A call that made all three requests has waited twice. *)
C18_Witness ==
    \E k \in 1..Len(fetches) :
        /\ Len(fetches[k].reqs) = 3
        /\ Len(fetches[k].waits) = 2
        /\ fetches[k].waits[2] = 2 * fetches[k].waits[1]

(* Every response received for the URL so far, in order. *)
RECURSIVE AllRequests(_)
AllRequests(fs) ==
    IF fs = <<>> THEN <<>> ELSE Head(fs).reqs \o AllRequests(Tail(fs))

(* C19: a 4xx response is not retried: no further request is made for the  *)
(* URL after it.                                                           *)
C19_ClientErrorNotRetried ==
    LET reqs == AllRequests(fetches)
    IN  \A j \in 1..(Len(reqs) - 1) : ~ClientError(reqs[j])

(* A DownloadHTTP call returned on its first response, a 404, and          *)
(* RunPipeline has returned that error.                                    *)
C19_Witness ==
    /\ hresult = Return(<<"download", "HTTP 404">>)
    /\ CurrentFetch = FetchCall(<<404>>, <<>>, "client")

(***************************************************************************)
(* Claims about the second pass and the retrying pipeline.                 *)
(***************************************************************************)
(* C21: a call of StreamParse that was given a prebuilt index never        *)
(* returns needSecondPass, and the pipeline parses a URL at most twice:    *)
(* once without and, when asked, once with the index of the first call.    *)
C21_SecondPassIsFinal ==
    harness = "pipeline" =>
        /\ \A k \in 1..Len(hist) :
              /\ hist[k].prebuilt => ~hist[k].sr.NeedSecondPass
              /\ hist[k].prebuilt = (k = 2)
              /\ hist[k].pass = k
        /\ Len(hist) <= 2
        /\ pass \in 1..2
        /\ Len(hist) = 2 => hist[1].sr.NeedSecondPass

(* in_network came first, the first call asked for a second pass, and the  *)
(* second call, which emitted results, has returned without asking again.  *)
C21_Witness ==
    /\ harness = "pipeline"
    /\ ppc = "done"
    /\ InNetworkFirst(doc)
    /\ Len(hist) = 2
    /\ hist[1].sr.NeedSecondPass
    /\ hist[2].prebuilt
    /\ ~hist[2].sr.NeedSecondPass
    /\ hist[2].emitted # EmptyBag

(* The error DownloadHTTP's caller puts in result.Err for a failed call. *)
DownloadErr(f) ==
    CASE f.ret = "client" -> <<"download", StatusErr(Last(f.reqs))>>
      [] f.ret = "exhausted" ->
            <<"download", "download failed after retries",
              StatusErr(Last(f.reqs))>>
      [] f.ret = "canceled" -> <<"download">> \o ErrCtx
      [] OTHER -> NoErr

(* The error of the attempt that made the DownloadHTTP call f and failed. *)
AttemptErr(f) == IF f.ret = "ok" THEN ErrParse ELSE DownloadErr(f)

(* C22: RunPipeline makes at most 3 attempts; it sleeps 2 s x attempt      *)
(* between attempts, 2 s after the first failure and 4 s after the second; *)
(* and when it gives up on a failure that is neither a cancellation nor a  *)
(* full disk, three attempts were made and the error returned is the one   *)
(* of the third.                                                           *)
C22_ThreeAttemptsWithBackoff ==
    harness = "idle" /\ hpc # "idle" =>
        /\ Len(fetches) <= 3
        /\ \A j \in 1..Len(sleeps) : sleeps[j] = 2 * j
        /\ Len(sleeps) <= 2
        /\ Len(sleeps) <= Len(fetches)
        /\ Len(fetches) <= Len(sleeps) + 1
        /\ \A k \in 1..(Len(fetches) - 1) : fetches[k].ret # "pending"
        /\ (/\ hresult.returned
            /\ hresult.Err # NoErr
            /\ ~hctxDone
            /\ ~isDiskFullError(hresult.Err)) =>
              /\ Len(fetches) = 3
              /\ sleeps = <<2, 4>>
              /\ hresult.Err = AttemptErr(Last(fetches))

(* Three attempts failed in three ways, with sleeps of 2 s and 4 s between *)
(* them, and RunPipeline returned the error of the third.                  *)
C22_Witness ==
    /\ hresult.returned
    /\ ~hctxDone
    /\ sleeps = <<2, 4>>
    /\ fetches[1].ret = "exhausted"
    /\ fetches[2].ret = "ok"
    /\ fetches[3].ret = "client"
    /\ hresult.Err = <<"download", "HTTP 404">>

(* C23: a disk-full failure is not retried: RunPipeline returns at once,   *)
(* without a sleep or a further attempt, and the error it returns carries  *)
(* the hint with the available space and the temp dir.                     *)
C23_DiskFullNotRetried ==
    harness = "idle" /\ hpc # "idle" =>
        /\ hpc \in {"ploop", "request", "backoff", "body", "retrywait"} =>
              ~isDiskFullError(hresult.Err)
        /\ (hresult.returned /\ isDiskFullError(hresult.Err)) =>
              /\ Len(sleeps) = Len(fetches) - 1
              /\ Last(fetches).ret = "ok"
              /\ hresult.Err = WithDiskFullHint(ErrDiskFull)

(* The second attempt hit a full disk after one sleep, and RunPipeline     *)
(* returned the error with the hint.                                       *)
C23_Witness ==
    /\ hresult = Return(WithDiskFullHint(ErrDiskFull))
    /\ Len(fetches) = 2
    /\ sleeps = <<2>>
    /\ ~hctxDone

(* The pipeline under way has returned. *)
PipelineReturned ==
    \/ harness = "idle" /\ hpc = "done"
    \/ harness = "failing" /\ ppc \in {"done", "failed"}

(* C24: once the context is cancelled the pipeline under way returns,      *)
(* wherever it is: waiting for a response or for more of the body, waiting *)
(* to send an element to the workers, or sleeping before a retry.          *)
C24_CancelledPipelineReturns == hctxDone ~> PipelineReturned

(* The context is cancelled while RunPipeline sleeps before a retry, or    *)
(* while the decode loop holds an element that the full channel cannot     *)
(* take yet.                                                               *)
C24_Witness ==
    /\ hctxDone
    /\ \/ hpc = "retrywait"
       \/ harness = "failing" /\ ppc = "innet" /\ raw # <<>>
             /\ Len(ch) = ChanCap

(* What an attempt of RunPipeline that made the DownloadHTTP call f can    *)
(* leave in result.Err.                                                    *)
AttemptOutcomes(f) ==
    IF f.ret = "ok" THEN {NoErr, ErrParse, ErrDiskFull} ELSE {DownloadErr(f)}

(* C25 as stated: a run of RunPipeline whose context was cancelled before  *)
(* or during the run returns the cancellation error itself, so an error    *)
(* that is not nil.                                                        *)
C25_CancelledRunReturnsCtxErr ==
    (harness = "idle" /\ hresult.returned /\ hctxDone) =>
        hresult.Err = ErrCtx

(* What RunPipeline returns under a cancelled context: ctx.Err() itself    *)
(* when no attempt was made, and otherwise ctx.Err() or whatever the last  *)
(* attempt left, without the disk-full hint.                               *)
CancelledReturn ==
    (hresult.returned /\ hctxDone) =>
        /\ fetches = <<>> => hresult.Err = ErrCtx
        /\ fetches # <<>> =>
              hresult.Err \in {ErrCtx} \cup AttemptOutcomes(Last(fetches))

(* C25, amended: once the context is cancelled RunPipeline starts no       *)
(* attempt and no retry sleep; a run cancelled before its first attempt    *)
(* returns ctx.Err() unchanged; a run cancelled later returns ctx.Err() or *)
(* the outcome of the attempt under way, which is nil when that attempt    *)
(* succeeded and wraps the cancellation when the download was interrupted. *)
C25_CancelledRunStops ==
    [][(harness = "idle" /\ hctxDone) =>
          /\ Len(fetches') = Len(fetches)
          /\ hpc' = "retrywait" => hpc = "retrywait"
          /\ CancelledReturn']_vars

(* The context was cancelled during the backoff of the second attempt's    *)
(* download, after one retry sleep: RunPipeline returned the cancellation  *)
(* wrapped by the download step and made no third attempt.                 *)
C25_Witness ==
    /\ hresult.returned
    /\ hctxDone
    /\ Len(fetches) = 2
    /\ sleeps = <<2>>
    /\ hresult.Err = <<"download">> \o ErrCtx

(* C26: a goroutine of the pool that got a slot creates one tracker before *)
(* RunPipeline is entered and calls Done on it once, after it has assigned *)
(* the result to its slot; a goroutine that left on cancellation, without  *)
(* a pipeline, has neither created a tracker nor called Done.              *)
C26_OneTrackerPerPipeline ==
    \A t \in Threads :
        /\ tpc[t] \in {"unborn", "select", "acquired"} =>
              trackers[t] = <<0, 0>>
        /\ tpc[t] \in {"call", "running", "store", "done"} =>
              trackers[t] = <<1, 0>>
        /\ tpc[t] = "release" => trackers[t] = <<1, 1>>
        /\ tpc[t] = "exit" => trackers[t] \in {<<0, 0>>, <<1, 1>>}
        /\ trackers[t][2] = 1 =>
              /\ tresult[t] # NoResult
              /\ writes[t] = <<t>>
              /\ results[t] = tresult[t]
        /\ (tpc[t] = "exit" /\ trackers[t] = <<0, 0>>) =>
              /\ tresult[t] = NoResult
              /\ results[t] = CanceledResult(urls[t])

(* One goroutine has finished its pipeline and called Done, while another  *)
(* is inside RunPipeline with its tracker created and Done not yet called. *)
C26_Witness ==
    \E i, j \in Threads :
        /\ tpc[i] = "exit" /\ trackers[i] = <<1, 1>>
        /\ results[i] = tresult[i]
        /\ tpc[j] = "running" /\ trackers[j] = <<1, 0>>

(***************************************************************************)
(* The disk-staged pipeline: SplitFile writes the elements of the          *)
(* provider_references and in_network arrays to files, whatever their      *)
(* order in the document, and runParsePhases scans the first kind, then    *)
(* the second.                                                             *)
(***************************************************************************)
(* matchedProviders of Phase A, mrf.ParseProviderReferences over the files *)
PhaseAIndex(d, targets, simd) ==
    IndexRefs(EmptyIndex, DocRefs(d), targets, simd)

(* result.Results of runParsePhases: nothing when no reference matched and *)
(* there is no in_network file, otherwise what mrf.ParseInNetwork emits.   *)
runParsePhases(d, targets, simd) ==
    LET m == PhaseAIndex(d, targets, simd)
    IN  IF DOMAIN m = {} /\ DocItems(d) = <<>> THEN <<>>
        ELSE SerialInNetwork(DocItems(d), targets, m, SourceFile, simd)

(* C27: for the same document and targets the streaming pipeline ends with *)
(* the same multiset of results as the disk-staged pipeline.               *)
C27_StreamingEqualsStaged ==
    (harness = "pipeline" /\ ppc = "done") =>
        ResultBag = BagOfSeq(runParsePhases(doc, targetNPIs, useSimd))

(* provider_references has entries, none with a target NPI, an in_network  *)
(* item names a target NPI in an inline provider group: the streaming      *)
(* pipeline is done without results, the disk-staged one emits some.       *)
C27_Witness ==
    /\ harness = "pipeline"
    /\ ppc = "done"
    /\ DocRefs(doc) # <<>>
    /\ DOMAIN PhaseAIndex(doc, targetNPIs, useSimd) = {}
    /\ Results = <<>>
    /\ runParsePhases(doc, targetNPIs, useSimd) # <<>>

(* C28: StreamParse returns an error and no result when the top-level     *)
(* value is not an object, and when the stream ends before the closing '}' *)
(* of the top-level object; it returns a result and no error exactly for   *)
(* the streams that hold a whole object.                                   *)
C28_MalformedOrTruncatedFails ==
    lpc = "done" =>
        /\ lres.result = (lres.err = NoErr)
        /\ (input # <<>> /\ Head(input) # "{") =>
              lres.err = <<"expected '{'">>
        /\ input \notin LexObjects => lres.err # NoErr
        /\ (input # <<>> /\ Head(input) = "{" /\ input \notin LexObjects) =>
              lres.err[Len(lres.err)] = "EOF"
        /\ input \in LexObjects => lres.err = NoErr

(* The stream ended after the first of two members, and StreamParse        *)
(* returned the error of the closing token.                                *)
C28_Witness ==
    /\ lpc = "done"
    /\ input = <<"{", TStr, TPrim>>
    /\ lres = [err |-> <<"reading closing token", "EOF">>, result |-> FALSE]

(* C29: an array element that json.Unmarshal rejects is left out without  *)
(* an error or a warning, it yields no result, and the pipeline ends with  *)
(* the results of the document without its malformed elements.             *)
C29_MalformedElementsSkipped ==
    (harness = "pipeline" /\ ppc = "done") =>
        /\ resultErr = NoErr
        /\ warnings = (IF skippedInNetwork THEN 1 ELSE 0)
        /\ ResultBag = BagOfSeq(SerialPipeline(WellFormedPart(doc),
                                               targetNPIs, useSimd))

(* With simdjson the malformed provider_references element was indexed     *)
(* with an empty TIN, and the pipeline has emitted a result through it.    *)
C29_Witness ==
    /\ harness = "pipeline"
    /\ ppc = "done"
    /\ useSimd
    /\ DocRefs(doc) = <<MalformedRef>>
    /\ \E k \in 1..Len(Results) :
          Results[k].tin = ZeroTIN /\ Results[k].billing_code = "c2"

(* What in_network yields against the index m: every rate, whether it     *)
(* names its providers by provider_group_id or inline.                     *)
InNetworkResults(d, m) ==
    BagOfSeq(SerialInNetwork(DocItems(d), targetNPIs, m, SourceFile, useSimd))

(* C30 as stated: with in_network before provider_references the results   *)
(* are those of the inline provider_groups alone, as if nothing were       *)
(* indexed.                                                                *)
C30_ReversedOrderInlineOnly ==
    (harness = "pipeline" /\ ppc = "done" /\ InNetworkFirst(doc)) =>
        ResultBag = InNetworkResults(doc, EmptyIndex)

(* C30, amended: with in_network before provider_references the first pass *)
(* emits nothing; when provider_references holds a target NPI a second     *)
(* pass emits every rate, those referenced by provider_group_id and the    *)
(* inline ones; when it holds none there is no second pass and nothing is  *)
(* emitted, inline matches included.                                       *)
C30_ReversedOrderSecondPass ==
    (harness = "pipeline" /\ InNetworkFirst(doc)) =>
        LET m == IndexOfDoc(EmptyIndex, doc, targetNPIs, useSimd)
        IN  /\ pass = 1 => Results = <<>>
            /\ ppc = "done" =>
                  IF DOMAIN m = {}
                  THEN pass = 1
                  ELSE pass = 2 /\ ResultBag = InNetworkResults(doc, m)

(* in_network came first and the pipeline is done after its second pass    *)
(* with a result for c1, whose only link to a provider is a                *)
(* provider_group_id.                                                      *)
C30_Witness ==
    /\ harness = "pipeline"
    /\ ppc = "done"
    /\ InNetworkFirst(doc)
    /\ pass = 2
    /\ \E k \in 1..Len(Results) : Results[k].billing_code = "c1"

(***************************************************************************)
(* Claims about the index, the element workers and the result buffer.      *)
(***************************************************************************)
(* streamProviderReferences has returned in the first pass of this URL. *)
RefsCompleted == pass = 2 \/ (seenProviderRefs /\ ppc # "refs")

(* C31: once provider_references has been read in the first pass, no step  *)
(* of the pipeline changes the index: not the rest of the first pass, not  *)
(* the hand-over to the second pass, not the second pass, and no element   *)
(* worker; while in_network is processed the index is only read.           *)
C31_IndexImmutable ==
    [][(harness = "pipeline" /\ (RefsCompleted \/ ppc \in {"innet", "wait"}))
          => matched' = matched]_vars

(* In the second pass an element worker has matched an element against a   *)
(* non-empty index and is emitting its results.                            *)
C31_Witness ==
    /\ harness = "pipeline"
    /\ pass = 2
    /\ ppc = "innet"
    /\ DOMAIN matched # {}
    /\ matched = sr[1].MatchedProviders
    /\ \E w \in ElemWorkers : wpc[w] = "emit"

(* emitFunc, called by several goroutines at once.  The closure locks the
   mutex, appends to result.Results and unlocks; append reads the slice and
   then stores the longer one, which are two steps for the other goroutines. *)
MaxEmits == 2

Emitters == 1..MaxP

EmitCalls == {<<w, k>> : w \in Emitters, k \in 1..MaxEmits}

InitEmit ==
    /\ PoolIdle
    /\ ParseIdle
    /\ FetchIdle
    /\ HttpIdle
    /\ LexIdle
    /\ FifoIdle
    /\ em \in [Emitters -> [pc : {"idle"}, left : 0..MaxEmits, buf : {<<>>}]]
    /\ mu = 0
    /\ buffer = <<>>
    /\ ecalls = 0

MutexFree_Always(m) == TRUE

MutexFree(m) == m = 0

EmitCall(w) ==
    /\ w \in DOMAIN em
    /\ em[w].pc = "idle"
    /\ em[w].left > 0
    /\ em' = [em EXCEPT ![w].pc = "lock"]
    /\ ecalls' = ecalls + 1
    /\ UNCHANGED <<mu, buffer>>
    /\ UNCHANGED <<poolVars, parseVars, fetchVars, httpVars, lexVars, fifoVars>>

EmitLock(w) ==
    /\ w \in DOMAIN em
    /\ em[w].pc = "lock"
    /\ MutexFree(mu)
    /\ mu' = w
    /\ em' = [em EXCEPT ![w].pc = "read"]
    /\ UNCHANGED <<buffer, ecalls>>
    /\ UNCHANGED <<poolVars, parseVars, fetchVars, httpVars, lexVars, fifoVars>>

EmitRead(w) ==
    /\ w \in DOMAIN em
    /\ em[w].pc = "read"
    /\ em' = [em EXCEPT ![w].pc = "write", ![w].buf = buffer]
    /\ UNCHANGED <<mu, buffer, ecalls>>
    /\ UNCHANGED <<poolVars, parseVars, fetchVars, httpVars, lexVars, fifoVars>>

EmitWrite(w) ==
    /\ w \in DOMAIN em
    /\ em[w].pc = "write"
    /\ buffer' = emitFunc(em[w].buf, <<w, em[w].left>>)
    /\ em' = [em EXCEPT ![w].pc = "unlock", ![w].buf = <<>>]
    /\ UNCHANGED <<mu, ecalls>>
    /\ UNCHANGED <<poolVars, parseVars, fetchVars, httpVars, lexVars, fifoVars>>

EmitUnlock(w) ==
    /\ w \in DOMAIN em
    /\ em[w].pc = "unlock"
    /\ mu' = 0
    /\ em' = [em EXCEPT ![w].pc = "idle", ![w].left = @ - 1]
    /\ UNCHANGED <<buffer, ecalls>>
    /\ UNCHANGED <<poolVars, parseVars, fetchVars, httpVars, lexVars, fifoVars>>

NextEmit ==
    \E w \in Emitters :
        \/ EmitCall(w)
        \/ EmitLock(w)
        \/ EmitRead(w)
        \/ EmitWrite(w)
        \/ EmitUnlock(w)

SpecEmit == InitEmit /\ [][NextEmit]_vars

Appended == {w \in DOMAIN em : em[w].pc \in {"lock", "read", "write"}}

(* C32: the append happens only under the mutex, so no append of concurrently
   emitting goroutines is lost: the buffer holds one entry for every call
   whose append has been made, each call's entry once, and when every call
   has returned its length is the number of calls. *)
C32_NoAppendLost ==
    em # <<>> =>
      /\ \A w \in DOMAIN em : em[w].pc \in {"read", "write", "unlock"} => mu = w
      /\ Len(buffer) = ecalls - Cardinality(Appended)
      /\ \A i, j \in DOMAIN buffer : buffer[i] = buffer[j] => i = j

C32_Witness ==
    /\ em # <<>>
    /\ \A w \in DOMAIN em : em[w].pc = "idle" /\ em[w].left = 0
    /\ ecalls = MaxP * MaxEmits
    /\ Len(buffer) = ecalls
    /\ \E i \in DOMAIN buffer : i > 1 /\ buffer[i][1] # buffer[i - 1][1]

(***************************************************************************)
(* The per-URL pipeline on documents whose in_network array is longer than *)
(* the channel of any worker count, so that the reader meets a full        *)
(* channel.                                                                *)
(***************************************************************************)
LongArray == [k \in 1..(2 * MaxP + 1) |-> InPalette[IF k % 2 = 1 THEN 1 ELSE 3]]

LongDocs == { MakeDoc(sh, <<RefPalette[1]>>, LongArray) : sh \in Shapes }

InitLong == InitParse("pipeline", LongDocs, {FALSE})

SpecLong == InitLong /\ [][NextStream]_vars

ReaderBlocked == ppc = "innet" /\ raw # <<>> /\ Len(ch) = 2 * numWorkers

(* C33: the channel to the element workers never holds more than 2 P
   elements; the reader holds at most one decoded element more, and while
   it holds one and the channel is full it neither decodes nor sends: the
   next thing to change the channel is a worker taking an element. *)
C33_BoundedChannel ==
    /\ [](harness = "pipeline" => Len(ch) <= 2 * numWorkers /\ Len(raw) <= 1)
    /\ [][ReaderBlocked =>
            /\ ei' = ei
            /\ raw' = raw
            /\ (ch' # ch => ch' = Tail(ch))]_vars

C33_Witness == ReaderBlocked /\ numWorkers = MaxP

(* C33 as stated: no element is decoded while the channel is full, and at
   most 2 P decoded elements wait. *)
C33_NoDecodeWhileFull ==
    /\ [](Len(ch) + Len(raw) <= 2 * numWorkers)
    /\ [][Len(ch) = 2 * numWorkers => ei' = ei]_vars

RefsRead == IF seenProviderRefs \/ pass = 2 THEN Len(DocRefs(doc)) ELSE 0

(* C34: the counter of provider_references elements equals the number of
   elements read from that array, and the counter of in_network elements the
   number read from in_network, while the arrays are read and when the
   pipeline has returned, whether or not the elements match. *)
C34_CountersCountElements ==
    harness = "pipeline" =>
      /\ ppc = "refs" => refsScanned = ei - 1
      /\ ppc \in {"key", "innet", "wait", "returned", "done"} =>
            refsScanned = RefsRead
      /\ ppc = "innet" => codesScanned = ei - 1
      /\ ppc = "wait" => codesScanned = Len(DocItems(doc))
      /\ ppc = "done" =>
            codesScanned = IF /\ KeyCount(doc, KeyInNet) > 0
                              /\ ~skippedInNetwork
                              /\ ~NoMatchingProviders
                           THEN Len(DocItems(doc))
                           ELSE 0

C34_Witness ==
    /\ harness = "pipeline" /\ ppc = "done"
    /\ refsScanned = MaxElems /\ codesScanned = MaxElems
    /\ DOMAIN matched # {} /\ Cardinality(DOMAIN matched) < refsScanned
    /\ Results # <<>>
    /\ \E i \in DOMAIN DocItems(doc) :
          processInNetworkElement(DocItems(doc)[i], targetNPIs, matched,
                                  SourceFile, useSimd) = <<>>

(* streamProviderReferences without the prefilter: every element is parsed. *)
ParseRefElement(m, ref, targets, simd) ==
    IF simd THEN extractProviderRef(m, ref, targets)
    ELSE IF RefUnmarshalFails(ref) THEN m
    ELSE UnmarshalGroups(m, ParseFloat(ref.provider_group_id),
                         ref.provider_groups, targets)

RECURSIVE ParseAllRefs(_, _, _, _)
ParseAllRefs(m, refs, targets, simd) ==
    IF refs = <<>> THEN m
    ELSE ParseAllRefs(ParseRefElement(m, Head(refs), targets, simd),
                      Tail(refs), targets, simd)

Discarded(ref) == ~lineContainsAny(RefBytes(ref), npiBytePatterns(targetNPIs))

(* C35: an element that the prefilter discards adds nothing to the index
   when it is parsed, and the index built with the prefilter equals the
   index built by parsing every element, while provider_references is read
   and from then on. *)
C35_PrefilterTransparent ==
    harness = "pipeline" =>
      /\ \A i \in DOMAIN DocRefs(doc) :
            Discarded(DocRefs(doc)[i]) =>
                ParseRefElement(EmptyIndex, DocRefs(doc)[i], targetNPIs,
                                useSimd) = EmptyIndex
      /\ ppc = "refs" =>
            matched = ParseAllRefs(EmptyIndex, SubSeq(DocRefs(doc), 1, ei - 1),
                                   targetNPIs, useSimd)
      /\ (seenProviderRefs /\ ppc # "refs") \/ pass = 2 =>
            matched = ParseAllRefs(EmptyIndex, DocRefs(doc), targetNPIs,
                                   useSimd)

C35_Witness ==
    /\ harness = "pipeline" /\ ppc = "done"
    /\ Results # <<>>
    /\ \E i, k \in DOMAIN DocRefs(doc) :
          /\ Discarded(DocRefs(doc)[i])
          /\ ~Discarded(DocRefs(doc)[k])
          /\ ParseRefElement(EmptyIndex, DocRefs(doc)[k], targetNPIs,
                             useSimd) # EmptyIndex

InNetworkRunning == ppc \in {"innet", "wait", "waitfail"}

SentResults ==
    BagOfSeq(SerialInNetwork(SubSeq(doc[mi].val, 1, ei - 1), targetNPIs,
                             matched, SourceFile, useSimd))

(* C36: at the step in which streamInNetwork returns, after the closing
   bracket or after a decode error, the channel is empty, every worker has
   left its loop with nothing left to emit, and the buffer holds the results
   of every element that was sent, each once; and no step outside
   streamInNetwork changes the buffer, so nothing is appended after the parse
   returned or while the pipeline reads the buffer. *)
C36_WorkersDrainedAtReturn ==
    /\ [][(harness = "failing" /\ InNetworkRunning /\ ~InNetworkRunning')
            => /\ ch = <<>> /\ chClosed /\ raw = <<>>
               /\ \A w \in ElemWorkers : wpc[w] = "exit" /\ wq[w] = <<>>
               /\ ResultBag = SentResults
               /\ Results' = Results]_vars
    /\ [][(harness = "failing" /\ ~InNetworkRunning) => Results' = Results]_vars

C36_Witness ==
    /\ harness = "failing"
    /\ ppc = "failed"
    /\ numWorkers = MaxP
    /\ mi \in DOMAIN doc
    /\ ei = 2
    /\ Len(doc[mi].val) > 1
    /\ Results # <<>>
    /\ \A w \in ElemWorkers : wpc[w] = "off"

(***************************************************************************)
(* The per-URL pipeline on documents in which the key in_network occurs    *)
(* twice.  StreamParse takes the case of a key each time the key is read.  *)
(***************************************************************************)
DupShapes ==
    { <<KeyInNet, KeyRefs, KeyInNet>>,
      <<KeyOther, KeyRefs, KeyInNet, KeyInNet>> }

DupDocs ==
    { MakeDoc(sh, r, i) :
        sh \in DupShapes,
        r \in BoundedSubSeqs(<<RefPalette[1], RefPalette[2]>>, MaxElems),
        i \in BoundedSubSeqs(<<InPalette[1], InPalette[3]>>, MaxElems) }

InitDup == InitParse("pipeline", DupDocs, {FALSE})

SpecDup == InitDup /\ [][NextStream]_vars

(* C37: a first pass that asks for a second pass has emitted nothing, and
   the buffer of a finished pipeline holds what one processing of every
   in_network element against the index yields, no result of an element
   twice. *)
C37_NoResultTwice ==
    harness = "pipeline" =>
      /\ (pass = 1 /\ ppc = "returned" /\ sr[1].NeedSecondPass) => Results = <<>>
      /\ ppc = "done" => ResultBag \sqsubseteq InNetworkResults(doc, matched)

(* The first pass skipped the first in_network, processed the second one
   and asked for a second pass; the second pass has processed both. *)
C37_Witness ==
    /\ harness = "pipeline"
    /\ ppc = "done"
    /\ pass = 2
    /\ KeyCount(doc, KeyInNet) = 2
    /\ hist[1].emitted # EmptyBag
    /\ ~(ResultBag \sqsubseteq InNetworkResults(doc, matched))

(***************************************************************************)
(* downloadAndParse on a complete download: the body holds contentLength   *)
(* bytes, countingReader counts what the gzip reader has read of it so     *)
(* far, and the count is compared when StreamParse returns.  The gzip      *)
(* reader reads the body as the decoder asks for more of the document; a   *)
(* Read returns any number of the bytes that are left.  The last bytes of  *)
(* the body (the gzip trailer and whatever follows the closing brace) are  *)
(* not needed to decode the closing brace.                                 *)
(***************************************************************************)
MaxBody == 3

CompleteDownloads == { [cl |-> c, n |-> <<0, 0>>] : c \in 2..MaxBody }

CountDocs ==
    { MakeDoc(sh, r, i) :
        sh \in FailShapes,
        r \in BoundedSubSeqs(<<RefPalette[1]>>, 1),
        i \in BoundedSubSeqs(<<InPalette[1], InPalette[3]>>, 1) }

InitCount == InitParseWith("failing", CountDocs, {FALSE}, CompleteDownloads)

ParseRunning == ppc \notin {"returned", "done", "failed"}

(* countingReader.Read: n, err := cr.reader.Read(p); cr.n += int64(n) *)
CountingRead ==
    /\ harness = "failing"
    /\ ParseRunning
    /\ countN[pass] < contentLength
    /\ \E n \in 1..(contentLength - countN[pass]) :
          countN' = [countN EXCEPT ![pass] = @ + n]
    /\ UNCHANGED <<poolVars, parseVars, httpVars, contentLength, resultErr,
                   lexVars, emitVars, fifoVars>>

(* The bytes of the body that encode the document up to its closing brace. *)
DocumentBytes == contentLength - 1

(* The closing brace can be decoded once the bytes before it were read. *)
CountedReturn ==
    /\ countN[pass] >= DocumentBytes
    /\ StreamParseReturn

NextCount ==
    \/ StreamParseOpen
    \/ KeyRefsSecondPass
    \/ KeyRefsFirstPass
    \/ RefElement
    \/ RefsEnd
    \/ KeyInNetReversed
    \/ KeyInNetNoMatch
    \/ KeyInNetProcess
    \/ KeyDefault
    \/ InNetDecode
    \/ InNetSend
    \/ InNetClose
    \/ InNetEnd
    \/ \E w \in ElemWorkers : WorkerRecv(w)
    \/ \E w \in ElemWorkers : WorkerEmit(w)
    \/ \E w \in ElemWorkers : WorkerExit(w)
    \/ CountingRead
    \/ CountedReturn
    \/ TruncatedReturn
    \/ SecondPass
    \/ PipelineDone

SpecCount == InitCount /\ [][NextCount]_vars

(* C38: when the body holds exactly contentLength bytes and the parse
   succeeds, the count compared when the parse returns equals contentLength
   and the pipeline does not end with the truncation error. *)
C38_CompleteDownloadPasses ==
    harness = "failing" =>
      /\ ppc = "returned" => countN[pass] = contentLength
      /\ ppc = "failed" => resultErr # PipelineErr(pass, <<ErrTruncated>>)

(* The parse of a complete body returned before the last byte was read and
   the pipeline reported a truncated download, with results in the buffer. *)
C38_Witness ==
    /\ harness = "failing"
    /\ ppc = "failed"
    /\ pass = 1
    /\ countN[1] = contentLength - 1
    /\ resultErr = PipelineErr(1, <<ErrTruncated>>)
    /\ Results # <<>>

(***************************************************************************)
(* Pool.Run under the scheduling the Go runtime gives: a goroutine that    *)
(* can take a step takes it, a started pipeline returns, and a goroutine   *)
(* blocked in the select proceeds when a slot is free or the context is    *)
(* cancelled (senders blocked on sem are served as slots come free).       *)
(* Cancellation itself is up to the caller and is not assumed.             *)
(***************************************************************************)
ThreadStep(t) ==
    /\ t \in Threads
    /\ \/ NewTracker(t)
       \/ PipelineStart(t)
       \/ PipelineReturn(t)
       \/ Store(t)
       \/ TrackerDone(t)
       \/ Release(t)

SelectStep(t) == t \in Threads /\ (Acquire(t) \/ CancelBail(t))

SpecPoolFair ==
    /\ InitPool
    /\ [][NextPool]_vars
    /\ WF_vars(Spawn)
    /\ WF_vars(PoolReturn)
    /\ \A t \in 1..MaxURLs : WF_vars(ThreadStep(t))
    /\ \A t \in 1..MaxURLs : SF_vars(SelectStep(t))

(* C39: Pool.Run returns, for every worker count, whether or not the
   context is ever cancelled. *)
C39_PoolRunReturns == <>(mainpc = "returned")

(* With no slot in the semaphore and no cancellation every goroutine is
   blocked in its select and Pool.Run is blocked in wg.Wait(). *)
C39_Witness ==
    /\ Workers = 0
    /\ ~ctxDone
    /\ Len(urls) = MaxURLs
    /\ nspawned = Len(urls)
    /\ \A t \in Threads : tpc[t] = "select"
    /\ mainpc = "loop"
    /\ \A t \in Threads : ~ENABLED SelectStep(t)
    /\ ~ENABLED PoolReturn

(* With at least one slot Pool.Run returns. *)
C39_ReturnsWithASlot == Workers > 0 => <>(mainpc = "returned")

(***************************************************************************)
(* runPipelineWithFIFO: the download goroutine writes the decompressed     *)
(* stream into a FIFO, the split goroutine reads it, and the function      *)
(* waits for the split result or for cancellation.  Opening one end of a   *)
(* FIFO blocks until the other end is open or being opened.                *)
(***************************************************************************)
NotFifo == UNCHANGED <<poolVars, parseVars, fetchVars, httpVars, lexVars,
                       emitVars>>

InitFifo ==
    /\ PoolIdle
    /\ ParseIdle
    /\ FetchIdle
    /\ HttpIdle
    /\ LexIdle
    /\ EmitIdle
    /\ fpc = "select"
    /\ dpc = "download"
    /\ spc = "start"
    /\ fctx \in BOOLEAN
    /\ fifoR = {}
    /\ fifoW = {}
    /\ fifoWait = {}
    /\ dlErrCh = <<>>
    /\ splitCh = <<>>
    /\ fErr = NoErr

(* os.OpenFile(path, os.O_WRONLY, 0) is entered by p. *)
BeginOpenWrite(p) ==
    /\ fifoW' = fifoW \cup {p}
    /\ fifoWait' = IF fifoR # {} THEN fifoWait \ fifoR ELSE fifoWait \cup {p}
    /\ UNCHANGED fifoR

(* os.Open(path) is entered by p. *)
BeginOpenRead(p) ==
    /\ fifoR' = fifoR \cup {p}
    /\ fifoWait' = IF fifoW # {} THEN fifoWait \ fifoW ELSE fifoWait \cup {p}
    /\ UNCHANGED fifoW

(* DownloadHTTP returns an error: StreamDecompressToPath returns it. *)
DownloadFails ==
    /\ dpc = "download"
    /\ dpc' = "done"
    /\ dlErrCh' = <<"err">>
    /\ UNCHANGED <<fpc, spc, fctx, fifoR, fifoW, fifoWait, splitCh, fErr>>
    /\ NotFifo

(* DownloadHTTP returns the response and the gzip reader is made. *)
DownloadResponds ==
    /\ dpc = "download"
    /\ ~fctx
    /\ dpc' = "gz"
    /\ UNCHANGED <<fpc, spc, fctx, fifoR, fifoW, fifoWait, dlErrCh, splitCh,
                   fErr>>
    /\ NotFifo

DownloadOpenFifo ==
    /\ dpc = "gz"
    /\ dpc' = "open"
    /\ BeginOpenWrite("download")
    /\ UNCHANGED <<fpc, spc, fctx, dlErrCh, splitCh, fErr>>
    /\ NotFifo

DownloadOpened ==
    /\ dpc = "open"
    /\ "download" \notin fifoWait
    /\ dpc' = "copy"
    /\ UNCHANGED <<fpc, spc, fctx, fifoR, fifoW, fifoWait, dlErrCh, splitCh,
                   fErr>>
    /\ NotFifo

(* io.Copy ends, with an error when the read end is closed or the body
   fails; f.Close(); the result goes to dlErrCh. *)
DownloadCopyEnds ==
    /\ dpc = "copy"
    /\ \E e \in {"ok", "err"} :
          /\ (fifoR = {} \/ fctx) => e = "err"
          /\ dlErrCh' = <<e>>
    /\ fifoW' = fifoW \ {"download"}
    /\ dpc' = "done"
    /\ UNCHANGED <<fpc, spc, fctx, fifoR, fifoWait, splitCh, fErr>>
    /\ NotFifo

(* SplitFile fails before jsplit opens its input. *)
SplitFailsEarly ==
    /\ spc = "start"
    /\ spc' = "done"
    /\ splitCh' = <<"err">>
    /\ UNCHANGED <<fpc, dpc, fctx, fifoR, fifoW, fifoWait, dlErrCh, fErr>>
    /\ NotFifo

SplitOpenFifo ==
    /\ spc = "start"
    /\ spc' = "open"
    /\ BeginOpenRead("split")
    /\ UNCHANGED <<fpc, dpc, fctx, dlErrCh, splitCh, fErr>>
    /\ NotFifo

SplitOpened ==
    /\ spc = "open"
    /\ "split" \notin fifoWait
    /\ spc' = "read"
    /\ UNCHANGED <<fpc, dpc, fctx, fifoR, fifoW, fifoWait, dlErrCh, splitCh,
                   fErr>>
    /\ NotFifo

(* jsplit fails on what it has read and closes its input. *)
SplitFails ==
    /\ spc = "read"
    /\ spc' = "done"
    /\ fifoR' = fifoR \ {"split"}
    /\ splitCh' = <<"err">>
    /\ UNCHANGED <<fpc, dpc, fctx, fifoW, fifoWait, dlErrCh, fErr>>
    /\ NotFifo

(* Every write end is closed: jsplit reads end of file and returns. *)
SplitEOF ==
    /\ spc = "read"
    /\ fifoW = {}
    /\ spc' = "done"
    /\ fifoR' = fifoR \ {"split"}
    /\ \E e \in {"ok", "err"} : splitCh' = <<e>>
    /\ UNCHANGED <<fpc, dpc, fctx, fifoW, fifoWait, dlErrCh, fErr>>
    /\ NotFifo

(* case out := <-splitCh *)
SelectSplit ==
    /\ fpc = "select"
    /\ splitCh # <<>>
    /\ fErr' = IF Head(splitCh) = "err" THEN <<"split">> ELSE NoErr
    /\ splitCh' = <<>>
    /\ fpc' = "drain"
    /\ UNCHANGED <<dpc, spc, fctx, fifoR, fifoW, fifoWait, dlErrCh>>
    /\ NotFifo

(* dlErr := <-dlErrCh and the returns that follow; runParsePhases is
   reduced to its return. *)
DrainDownload ==
    /\ fpc = "drain"
    /\ dlErrCh # <<>>
    /\ fErr' = IF fErr # NoErr THEN fErr
               ELSE IF Head(dlErrCh) = "err" THEN <<"download">>
               ELSE NoErr
    /\ dlErrCh' = <<>>
    /\ fpc' = "returned"
    /\ UNCHANGED <<dpc, spc, fctx, fifoR, fifoW, fifoWait, splitCh>>
    /\ NotFifo

(* case <-ctx.Done(): os.OpenFile(fifoPath, os.O_WRONLY, 0) is entered. *)
SelectCancel ==
    /\ fpc = "select"
    /\ fctx
    /\ fpc' = "unblock"
    /\ BeginOpenWrite("main")
    /\ UNCHANGED <<dpc, spc, fctx, dlErrCh, splitCh, fErr>>
    /\ NotFifo

(* The open returned: f.Close() *)
UnblockOpened ==
    /\ fpc = "unblock"
    /\ "main" \notin fifoWait
    /\ fifoW' = fifoW \ {"main"}
    /\ fpc' = "waitsplit"
    /\ UNCHANGED <<dpc, spc, fctx, fifoR, fifoWait, dlErrCh, splitCh, fErr>>
    /\ NotFifo

(* <-splitCh *)
CancelWaitSplit ==
    /\ fpc = "waitsplit"
    /\ splitCh # <<>>
    /\ splitCh' = <<>>
    /\ fpc' = "waitdl"
    /\ UNCHANGED <<dpc, spc, fctx, fifoR, fifoW, fifoWait, dlErrCh, fErr>>
    /\ NotFifo

(* <-dlErrCh; result.Err = ctx.Err(); return result *)
CancelWaitDownload ==
    /\ fpc = "waitdl"
    /\ dlErrCh # <<>>
    /\ dlErrCh' = <<>>
    /\ fErr' = ErrCtx
    /\ fpc' = "returned"
    /\ UNCHANGED <<dpc, spc, fctx, fifoR, fifoW, fifoWait, splitCh>>
    /\ NotFifo

FifoCancel ==
    /\ fpc \notin {"idle", "returned"}
    /\ ~fctx
    /\ fctx' = TRUE
    /\ UNCHANGED <<fpc, dpc, spc, fifoR, fifoW, fifoWait, dlErrCh, splitCh,
                   fErr>>
    /\ NotFifo

StreamDecompressToPath ==
    \/ DownloadFails
    \/ DownloadResponds
    \/ DownloadOpenFifo
    \/ DownloadOpened
    \/ DownloadCopyEnds

SplitFile ==
    \/ SplitFailsEarly
    \/ SplitOpenFifo
    \/ SplitOpened
    \/ SplitFails
    \/ SplitEOF

runPipelineWithFIFO ==
    \/ SelectSplit
    \/ DrainDownload
    \/ SelectCancel
    \/ UnblockOpened
    \/ CancelWaitSplit
    \/ CancelWaitDownload

NextFifo ==
    \/ StreamDecompressToPath
    \/ SplitFile
    \/ runPipelineWithFIFO
    \/ FifoCancel

(* Each goroutine that can take a step takes one; cancellation is not
   assumed. *)
SpecFifo ==
    /\ InitFifo
    /\ [][NextFifo]_vars
    /\ WF_vars(StreamDecompressToPath)
    /\ WF_vars(SplitFile)
    /\ WF_vars(runPipelineWithFIFO)

(* C40: runPipelineWithFIFO returns, whether the download fails before it
   opens the FIFO, the splitter fails, or the context is cancelled at any
   point. *)
C40_FifoAttemptReturns == <>(fpc = "returned")

(* The splitter had finished when the context was cancelled, the select
   took the cancellation, and the function is blocked opening the write end
   of a FIFO that nobody will open for reading. *)
C40_Witness ==
    /\ fctx
    /\ fpc = "unblock"
    /\ "main" \in fifoWait
    /\ spc = "done"
    /\ dpc = "done"
    /\ splitCh # <<>>
    /\ ~ENABLED NextFifo

====
